---- MODULE Spec2Model ----
(***************************************************************************)
(* A model of dynajs: the source-to-source instrumenting transformer       *)
(* (instrument(), the scope analyser, the hook-call emitters and the       *)
(* visitors) and the runtime hooks the emitted code calls.                 *)
(*                                                                         *)
(* Text is modelled as a sequence of tokens.  A token is a record          *)
(* [k, s, n, a]: its kind, a string, a number and a tuple.                 *)
(***************************************************************************)
EXTENDS Integers, Sequences, FiniteSets, TLC

VARIABLES
  numId,       \* the module-level id counter of the transformer
  idToLoc,     \* the module-level id -> location table of the transformer
  code,        \* the text given to the last instrument() call
  output,      \* the text the last instrument() call returned (<<>> if it threw)
  threw,       \* TRUE iff the last instrument() call threw
  allocs,      \* the newId calls of the last instrument() call, in order
  calls,       \* number of instrument() calls made so far in this process
  rerun,       \* TRUE iff the last call was given the previous call's output
  wrote,       \* TRUE iff the last instrumentFile() call wrote its output file
  returnStack,        \* analysis.ts: stack to store return values
  uncaughtException,  \* analysis.ts: the uncaught-exception slot
  switchLeft,         \* analysis.ts: left side of a switch statement
  switchStack,        \* analysis.ts: the stack of saved switchLeft values
  frames,      \* the instrumented activations being executed, innermost first
  last,        \* the last runtime hook call: its arguments, events and result
  open,        \* the enter/pre events whose exit/post event is still to come
  bad,         \* TRUE once an exit/post event fired out of turn
  host,        \* how the last script ended for the host
  loaded       \* the instrumented program the host runs

tvars == <<numId, idToLoc, code, output, threw, allocs, calls, rerun, wrote>>

rvars == <<returnStack, uncaughtException, switchLeft, switchStack, frames, last,
           open, bad, host, loaded>>

vars == <<numId, idToLoc, code, output, threw, allocs, calls, rerun, wrote,
          returnStack, uncaughtException, switchLeft, switchStack, frames, last,
          open, bad, host, loaded>>

-----------------------------------------------------------------------------
(* Bounds *)

MaxCalls == 2

-----------------------------------------------------------------------------
(* Tokens of source and emitted text *)

Tok(k, s, n, a) == [k |-> k, s |-> s, n |-> n, a |-> a]

Txt(s) == Tok("txt", s, 0, <<>>)

\* a quoted string "s"
Str(s) == Tok("str", s, 0, <<>>)

\* `${DYNAJS_VAR}.h`, the name of a runtime hook
Hook(h) == Tok("hook", h, 0, <<>>)

\* an id printed into the text
IdT(n) == Tok("id", "", n, <<>>)

\* a variable kind printed into the text
KindT(kind) == Tok("kind", kind, 0, <<>>)

\* a line end followed by the indentation of the given level
NL(level) == Tok("nl", "", level, <<>>)

\* the NO_INSTRUMENT marker string
MarkerT == Tok("marker", "", 0, <<>>)

\* the text of the source program number k, opaque to the transformer
SrcT(k) == Tok("src", "", k, <<>>)

\* one `id: [l1, c1, l2, c2]` member of the serialized location table
EntryT(id, loc) == Tok("entry", "", id, loc)

-----------------------------------------------------------------------------
(* AST nodes, as acorn delivers them (parse with locations: true).         *)
(* loc is <<start.line, start.column, end.line, end.column>>.              *)

\* the absent child (null)
Null == [type |-> "null"]

\* a one-line location
At(l, c1, c2) == <<l, c1, l, c2>>

Ident(name, loc) == [type |-> "Identifier", name |-> name, loc |-> loc]

Lit(raw, loc) == [type |-> "Literal", raw |-> raw, loc |-> loc]

Bin(op, l, r, loc) ==
  [type |-> "BinaryExpression", operator |-> op, left |-> l, right |-> r, loc |-> loc]

Upd(op, prefix, arg, loc) ==
  [type |-> "UpdateExpression", operator |-> op, prefix |-> prefix,
   argument |-> arg, loc |-> loc]

Asg(op, l, r, loc) ==
  [type |-> "AssignmentExpression", operator |-> op, left |-> l, right |-> r, loc |-> loc]

Mem(obj, prop, computed, loc) ==
  [type |-> "MemberExpression", object |-> obj, property |-> prop,
   computed |-> computed, optional |-> FALSE, loc |-> loc]

Call(callee, args, loc) ==
  [type |-> "CallExpression", callee |-> callee, arguments |-> args, loc |-> loc]

Arrow(params, body, loc) ==
  [type |-> "ArrowFunctionExpression", params |-> params, body |-> body, loc |-> loc]

ExprS(e, loc) == [type |-> "ExpressionStatement", expression |-> e, loc |-> loc]

Dtor(id, init, loc) == [type |-> "VariableDeclarator", id |-> id, init |-> init, loc |-> loc]

VarD(kind, decls, loc) ==
  [type |-> "VariableDeclaration", kind |-> kind, declarations |-> decls, loc |-> loc]

Block(body, loc) == [type |-> "BlockStatement", body |-> body, loc |-> loc]

IfS(test, cons, alt, loc) ==
  [type |-> "IfStatement", test |-> test, consequent |-> cons, alternate |-> alt, loc |-> loc]

ForS(init, test, update, body, loc) ==
  [type |-> "ForStatement", init |-> init, test |-> test, update |-> update,
   body |-> body, loc |-> loc]

ForInOf(type, left, right, body, loc) ==
  [type |-> type, left |-> left, right |-> right, body |-> body, await |-> FALSE, loc |-> loc]

SwitchS(disc, cases, loc) ==
  [type |-> "SwitchStatement", discriminant |-> disc, cases |-> cases, loc |-> loc]

CaseS(test, cons, loc) ==
  [type |-> "SwitchCase", test |-> test, consequent |-> cons, loc |-> loc]

FuncD(id, params, body, loc) ==
  [type |-> "FunctionDeclaration", id |-> id, params |-> params, body |-> body,
   generator |-> FALSE, async |-> FALSE, loc |-> loc]

RetS(arg, loc) == [type |-> "ReturnStatement", argument |-> arg, loc |-> loc]

ThrowS(arg, loc) == [type |-> "ThrowStatement", argument |-> arg, loc |-> loc]

TryS(block, handler, finalizer, loc) ==
  [type |-> "TryStatement", block |-> block, handler |-> handler,
   finalizer |-> finalizer, loc |-> loc]

CatchC(param, body, loc) == [type |-> "CatchClause", param |-> param, body |-> body, loc |-> loc]

Logical(op, l, r, loc) ==
  [type |-> "LogicalExpression", operator |-> op, left |-> l, right |-> r, loc |-> loc]

Cond(test, cons, alt, loc) ==
  [type |-> "ConditionalExpression", test |-> test, consequent |-> cons,
   alternate |-> alt, loc |-> loc]

UnaryE(op, arg, loc) ==
  [type |-> "UnaryExpression", operator |-> op, prefix |-> TRUE, argument |-> arg, loc |-> loc]

NewE(callee, args, loc) ==
  [type |-> "NewExpression", callee |-> callee, arguments |-> args, loc |-> loc]

Spread(arg, loc) == [type |-> "SpreadElement", argument |-> arg, loc |-> loc]

ClassD(id, loc) == [type |-> "ClassDeclaration", id |-> id, loc |-> loc]

Prog(body, loc) == [type |-> "Program", body |-> body, loc |-> loc]

-----------------------------------------------------------------------------
(* The source programs the transformer is run on.  Statement k of the pool  *)
(* written on line l:                                                       *)
(*    1  x;                                2  var x = 1 + y;                *)
(*    3  x++;                              4  let y = 1;                    *)
(*    5  { const c = 2; c; }               6  function f(a) { let y = a; return y; } *)
(*    7  for (let i = 0; i < 2; i++) { i; }                                 *)
(*    8  for (const k in o) { k; }         9  switch (x) { case 1: let y = 2; } *)
(*   10  x = y => y;                      11  --o.p;                        *)
(*   12  f(x);                            13  if (x) { let z = x; }         *)
(*   14  x += 1;                          15  try { throw x; } catch (e) { y = e; } *)
(*   16  switch (x) { case y: z = 1; default: w = 2; }                      *)
(*   17  z = x && (y || 1);               18  z = x || (y ? 1 : 0);         *)
(*   19  x && (z = y);                    20  o.m(x);                       *)
(*   21  new f(x);                        22  delete o.p;                   *)
(*   23  class A {}                       24  f(...x);                      *)

StmtKinds == 1..24

StmtAt(k, l) ==
  CASE k = 1 -> ExprS(Ident("x", At(l, 0, 1)), At(l, 0, 2))
    [] k = 2 -> VarD("var",
                  <<Dtor(Ident("x", At(l, 4, 5)),
                         Bin("+", Lit("1", At(l, 8, 9)), Ident("y", At(l, 12, 13)), At(l, 8, 13)),
                         At(l, 4, 13))>>,
                  At(l, 0, 14))
    [] k = 3 -> ExprS(Upd("++", FALSE, Ident("x", At(l, 0, 1)), At(l, 0, 3)), At(l, 0, 4))
    [] k = 4 -> VarD("let",
                  <<Dtor(Ident("y", At(l, 4, 5)), Lit("1", At(l, 8, 9)), At(l, 4, 9))>>,
                  At(l, 0, 10))
    [] k = 5 -> Block(
                  <<VarD("const",
                      <<Dtor(Ident("c", At(l, 8, 9)), Lit("2", At(l, 12, 13)), At(l, 8, 13))>>,
                      At(l, 2, 14)),
                    ExprS(Ident("c", At(l, 15, 16)), At(l, 15, 17))>>,
                  At(l, 0, 19))
    [] k = 6 -> FuncD(Ident("f", At(l, 9, 10)), <<Ident("a", At(l, 11, 12))>>,
                  Block(
                    <<VarD("let",
                        <<Dtor(Ident("y", At(l, 20, 21)), Ident("a", At(l, 24, 25)),
                               At(l, 20, 25))>>,
                        At(l, 16, 26)),
                      RetS(Ident("y", At(l, 34, 35)), At(l, 27, 36))>>,
                    At(l, 14, 38)),
                  At(l, 0, 38))
    [] k = 7 -> ForS(
                  VarD("let",
                    <<Dtor(Ident("i", At(l, 9, 10)), Lit("0", At(l, 13, 14)), At(l, 9, 14))>>,
                    At(l, 5, 14)),
                  Bin("<", Ident("i", At(l, 16, 17)), Lit("2", At(l, 20, 21)), At(l, 16, 21)),
                  Upd("++", FALSE, Ident("i", At(l, 23, 24)), At(l, 23, 26)),
                  Block(<<ExprS(Ident("i", At(l, 30, 31)), At(l, 30, 32))>>, At(l, 28, 34)),
                  At(l, 0, 34))
    [] k = 8 -> ForInOf("ForInStatement",
                  VarD("const", <<Dtor(Ident("k", At(l, 11, 12)), Null, At(l, 11, 12))>>,
                       At(l, 5, 12)),
                  Ident("o", At(l, 16, 17)),
                  Block(<<ExprS(Ident("k", At(l, 21, 22)), At(l, 21, 23))>>, At(l, 19, 25)),
                  At(l, 0, 25))
    [] k = 9 -> SwitchS(Ident("x", At(l, 8, 9)),
                  <<CaseS(Lit("1", At(l, 18, 19)),
                      <<VarD("let",
                          <<Dtor(Ident("y", At(l, 25, 26)), Lit("2", At(l, 29, 30)),
                                 At(l, 25, 30))>>,
                          At(l, 21, 31))>>,
                      At(l, 13, 31))>>,
                  At(l, 0, 33))
    [] k = 10 -> ExprS(
                   Asg("=", Ident("x", At(l, 0, 1)),
                       Arrow(<<Ident("y", At(l, 4, 5))>>, Ident("y", At(l, 9, 10)), At(l, 4, 10)),
                       At(l, 0, 10)),
                   At(l, 0, 11))
    [] k = 11 -> ExprS(
                   Upd("--", TRUE,
                       Mem(Ident("o", At(l, 2, 3)), Ident("p", At(l, 4, 5)), FALSE, At(l, 2, 5)),
                       At(l, 0, 5)),
                   At(l, 0, 6))
    [] k = 12 -> ExprS(
                   Call(Ident("f", At(l, 0, 1)), <<Ident("x", At(l, 2, 3))>>, At(l, 0, 4)),
                   At(l, 0, 5))
    [] k = 13 -> IfS(Ident("x", At(l, 4, 5)),
                   Block(
                     <<VarD("let",
                         <<Dtor(Ident("z", At(l, 13, 14)), Ident("x", At(l, 17, 18)),
                                At(l, 13, 18))>>,
                         At(l, 9, 19))>>,
                     At(l, 7, 21)),
                   Null,
                   At(l, 0, 21))
    [] k = 14 -> ExprS(
                   Asg("+=", Ident("x", At(l, 0, 1)), Lit("1", At(l, 5, 6)), At(l, 0, 6)),
                   At(l, 0, 7))
    [] k = 15 -> TryS(
                   Block(<<ThrowS(Ident("x", At(l, 12, 13)), At(l, 6, 14))>>, At(l, 4, 16)),
                   CatchC(Ident("e", At(l, 24, 25)),
                          Block(<<ExprS(Asg("=", Ident("y", At(l, 29, 30)),
                                            Ident("e", At(l, 33, 34)), At(l, 29, 34)),
                                        At(l, 29, 35))>>,
                                At(l, 27, 37)),
                          At(l, 17, 37)),
                   Null,
                   At(l, 0, 37))
    [] k = 16 -> SwitchS(Ident("x", At(l, 8, 9)),
                   <<CaseS(Ident("y", At(l, 18, 19)),
                       <<ExprS(Asg("=", Ident("z", At(l, 21, 22)), Lit("1", At(l, 25, 26)),
                                   At(l, 21, 26)),
                               At(l, 21, 27))>>,
                       At(l, 13, 27)),
                     CaseS(Null,
                       <<ExprS(Asg("=", Ident("w", At(l, 37, 38)), Lit("2", At(l, 41, 42)),
                                   At(l, 37, 42)),
                               At(l, 37, 43))>>,
                       At(l, 28, 43))>>,
                   At(l, 0, 45))
    [] k = 17 -> ExprS(
                   Asg("=", Ident("z", At(l, 0, 1)),
                       Logical("&&", Ident("x", At(l, 4, 5)),
                               Logical("||", Ident("y", At(l, 10, 11)),
                                       Lit("1", At(l, 15, 16)), At(l, 10, 16)),
                               At(l, 4, 17)),
                       At(l, 0, 17)),
                   At(l, 0, 18))
    [] k = 18 -> ExprS(
                   Asg("=", Ident("z", At(l, 0, 1)),
                       Logical("||", Ident("x", At(l, 4, 5)),
                               Cond(Ident("y", At(l, 10, 11)), Lit("1", At(l, 14, 15)),
                                    Lit("0", At(l, 18, 19)), At(l, 10, 19)),
                               At(l, 4, 20)),
                       At(l, 0, 20)),
                   At(l, 0, 21))
    [] k = 19 -> ExprS(
                   Logical("&&", Ident("x", At(l, 0, 1)),
                           Asg("=", Ident("z", At(l, 6, 7)), Ident("y", At(l, 10, 11)),
                               At(l, 6, 11)),
                           At(l, 0, 12)),
                   At(l, 0, 13))
    [] k = 20 -> ExprS(
                   Call(Mem(Ident("o", At(l, 0, 1)), Ident("m", At(l, 2, 3)), FALSE,
                            At(l, 0, 3)),
                        <<Ident("x", At(l, 4, 5))>>, At(l, 0, 6)),
                   At(l, 0, 7))
    [] k = 21 -> ExprS(
                   NewE(Ident("f", At(l, 4, 5)), <<Ident("x", At(l, 6, 7))>>, At(l, 0, 8)),
                   At(l, 0, 9))
    [] k = 22 -> ExprS(
                   UnaryE("delete",
                          Mem(Ident("o", At(l, 7, 8)), Ident("p", At(l, 9, 10)), FALSE,
                              At(l, 7, 10)),
                          At(l, 0, 10)),
                   At(l, 0, 11))
    [] k = 23 -> ClassD(Ident("A", At(l, 6, 7)), At(l, 0, 10))
    [] OTHER -> ExprS(
                  Call(Ident("f", At(l, 0, 1)),
                       <<Spread(Ident("x", At(l, 5, 6)), At(l, 2, 6))>>, At(l, 0, 7)),
                  At(l, 0, 8))

FuncE(id, params, body, loc) ==
  [type |-> "FunctionExpression", id |-> id, params |-> params, body |-> body,
   generator |-> FALSE, async |-> FALSE, loc |-> loc]

\* a `let`, `const` or `var` declaration of one name with a literal
\* initializer, written from column c of line 1
Decl(kind, name, raw, c) ==
  VarD(kind, <<Dtor(Ident(name, At(1, c + 4, c + 5)), Lit(raw, At(1, c + 8, c + 9)),
                    At(1, c + 4, c + 9))>>,
       At(1, c, c + 10))

\* `x;` written from column c of line 1
ReadS(name, c) == ExprS(Ident(name, At(1, c, c + 1)), At(1, c, c + 2))

-----------------------------------------------------------------------------
(* Programs that exercise scopes, binding positions, loop headers and      *)
(* update targets:                                                         *)
(*   28  var v; v;                                                         *)
(*   29  function f(a, b) { var a; return a + b; }                         *)
(*   30  x = function g(a) { function a() {} };                            *)
(*   31  { let a = 1; { let b = 2; } { let c = 3; } }                      *)
(*   32  function h() { let y = 1; if (x) { var u = 1; let l = 2; } }      *)
(*   33  for (const k of o) { k; }       34  for (; x; ) { x; }            *)
(*   35  for (x = 0; ; ) { x; }          36  for (;;) { x; }               *)
(*   37  for (var i = 0; i < 2; i++) { i; }                                *)
(*   38  for (; ; x++) { x; }            39  o[k]--;                       *)
(*   40  f(x).p++;                                                         *)
(*   41  try { var t = 1; } catch (e) { let q = e; }                       *)

RegionStmts(k) ==
  CASE k = 28 -> <<VarD("var", <<Dtor(Ident("v", At(1, 4, 5)), Null, At(1, 4, 5))>>,
                        At(1, 0, 6)),
                   ReadS("v", 7)>>
    [] k = 29 -> <<FuncD(Ident("f", At(1, 9, 10)),
                     <<Ident("a", At(1, 11, 12)), Ident("b", At(1, 14, 15))>>,
                     Block(
                       <<VarD("var", <<Dtor(Ident("a", At(1, 23, 24)), Null, At(1, 23, 24))>>,
                              At(1, 19, 25)),
                         RetS(Bin("+", Ident("a", At(1, 33, 34)), Ident("b", At(1, 37, 38)),
                                  At(1, 33, 38)),
                              At(1, 26, 39))>>,
                       At(1, 17, 41)),
                     At(1, 0, 41))>>
    [] k = 30 -> <<ExprS(
                     Asg("=", Ident("x", At(1, 0, 1)),
                         FuncE(Ident("g", At(1, 13, 14)), <<Ident("a", At(1, 15, 16))>>,
                               Block(<<FuncD(Ident("a", At(1, 29, 30)), <<>>,
                                             Block(<<>>, At(1, 33, 35)), At(1, 20, 35))>>,
                                     At(1, 18, 37)),
                               At(1, 4, 37)),
                         At(1, 0, 37)),
                     At(1, 0, 38))>>
    [] k = 31 -> <<Block(<<Decl("let", "a", "1", 2),
                           Block(<<Decl("let", "b", "2", 15)>>, At(1, 13, 27)),
                           Block(<<Decl("let", "c", "3", 30)>>, At(1, 28, 42))>>,
                         At(1, 0, 44))>>
    [] k = 32 -> <<FuncD(Ident("h", At(1, 9, 10)), <<>>,
                     Block(<<Decl("let", "y", "1", 15),
                             IfS(Ident("x", At(1, 30, 31)),
                                 Block(<<Decl("var", "u", "1", 35),
                                         Decl("let", "l", "2", 46)>>,
                                       At(1, 33, 58)),
                                 Null, At(1, 26, 58))>>,
                           At(1, 13, 60)),
                     At(1, 0, 60))>>
    [] k = 33 -> <<[StmtAt(8, 1) EXCEPT !.type = "ForOfStatement"]>>
    [] k = 34 -> <<ForS(Null, Ident("x", At(1, 7, 8)), Null,
                        Block(<<ReadS("x", 14)>>, At(1, 12, 18)), At(1, 0, 18))>>
    [] k = 35 -> <<ForS(Asg("=", Ident("x", At(1, 5, 6)), Lit("0", At(1, 9, 10)),
                            At(1, 5, 10)),
                        Null, Null,
                        Block(<<ReadS("x", 18)>>, At(1, 16, 22)), At(1, 0, 22))>>
    [] k = 36 -> <<ForS(Null, Null, Null,
                        Block(<<ReadS("x", 11)>>, At(1, 9, 15)), At(1, 0, 15))>>
    [] k = 37 -> <<[StmtAt(7, 1) EXCEPT !.init.kind = "var"]>>
    [] k = 38 -> <<ForS(Null, Null,
                        Upd("++", FALSE, Ident("x", At(1, 9, 10)), At(1, 9, 12)),
                        Block(<<ReadS("x", 16)>>, At(1, 14, 20)), At(1, 0, 20))>>
    [] k = 39 -> <<ExprS(
                     Upd("--", FALSE,
                         Mem(Ident("o", At(1, 0, 1)), Ident("k", At(1, 2, 3)), TRUE,
                             At(1, 0, 4)),
                         At(1, 0, 6)),
                     At(1, 0, 7))>>
    [] k = 40 -> <<ExprS(
                     Upd("++", FALSE,
                         Mem(Call(Ident("f", At(1, 0, 1)), <<Ident("x", At(1, 2, 3))>>,
                                  At(1, 0, 4)),
                             Ident("p", At(1, 5, 6)), FALSE, At(1, 0, 6)),
                         At(1, 0, 8)),
                     At(1, 0, 9))>>
    [] OTHER -> <<TryS(Block(<<Decl("var", "t", "1", 6)>>, At(1, 4, 18)),
                       CatchC(Ident("e", At(1, 26, 27)),
                              Block(<<VarD("let",
                                        <<Dtor(Ident("q", At(1, 35, 36)),
                                               Ident("e", At(1, 39, 40)), At(1, 35, 40))>>,
                                        At(1, 31, 41))>>,
                                    At(1, 29, 43)),
                              At(1, 19, 43)),
                       Null, At(1, 0, 43))>>

\* the programs of the second pool, and the pool statements run with them
NewKinds == 28..41

RegionKinds == {7, 8, 11, 15} \cup NewKinds

\* Source program number k: statement k alone on line 1 or, for k beyond
\* the pool, statement 2 * (k - 24) on line 1 followed by `x++;` on line 2.
SourceKinds == 1..27

ProgramAt(k) ==
  IF k \in NewKinds
  THEN LET body == RegionStmts(k)
       IN Prog(body, <<1, 0, 1, body[Len(body)].loc[4]>>)
  ELSE IF k \in StmtKinds
  THEN Prog(<<StmtAt(k, 1)>>, <<1, 0, 1, StmtAt(k, 1).loc[4]>>)
  ELSE Prog(<<StmtAt(2 * (k - Cardinality(StmtKinds)), 1), StmtAt(3, 2)>>, <<1, 0, 2, 4>>)

-----------------------------------------------------------------------------
(* Scope analyser (class Scope).  A frame is [vars, forLexical]; vars is    *)
(* the name -> kind object in insertion order, a sequence of [name, kind].  *)
(* The chain of frames is a sequence: its head is the current frame and    *)
(* the rest is the chain of the parent links.                              *)

NewScope(forLexical) == [vars |-> <<>>, forLexical |-> forLexical]

\* vars[x] = kind
SetVar(vs, x, kind) ==
  IF \E i \in 1..Len(vs) : vs[i].name = x
  THEN [i \in 1..Len(vs) |-> IF vs[i].name = x THEN [name |-> x, kind |-> kind] ELSE vs[i]]
  ELSE Append(vs, [name |-> x, kind |-> kind])

RECURSIVE SetVars(_, _, _)
SetVars(vs, pairs, i) ==
  IF i > Len(pairs) THEN vs
  ELSE SetVars(SetVar(vs, pairs[i].name, pairs[i].kind), pairs, i + 1)

\* the bound names of a binding pattern (the pool binds plain names only)
RECURSIVE CollectIdentifiers(_)
CollectIdentifiers(node) ==
  CASE node.type = "Identifier" -> <<node.name>>
    [] node.type = "AssignmentPattern" -> CollectIdentifiers(node.left)
    [] node.type = "RestElement" -> CollectIdentifiers(node.argument)
    [] OTHER -> <<>>

RECURSIVE DeclaredNames(_, _, _)
DeclaredNames(decls, kind, i) ==
  IF i > Len(decls) THEN <<>>
  ELSE LET xs == CollectIdentifiers(decls[i].id)
       IN [j \in 1..Len(xs) |-> [name |-> xs[j], kind |-> kind]]
            \o DeclaredNames(decls, kind, i + 1)

\* The names Scope.visitors records when acorn-walk's recursive() runs it
\* over node: it descends through every statement but stops at functions.
RECURSIVE HoistedNames(_), HoistedOfList(_, _)
HoistedOfList(nodes, i) ==
  IF i > Len(nodes) THEN <<>>
  ELSE HoistedNames(nodes[i]) \o HoistedOfList(nodes, i + 1)

HoistedNames(node) ==
  CASE node.type = "VariableDeclaration" ->
         IF node.kind = "var" THEN DeclaredNames(node.declarations, "Var", 1) ELSE <<>>
    [] node.type = "FunctionDeclaration" ->
         IF node.id.type # "null" THEN <<[name |-> node.id.name, kind |-> "Func"]>> ELSE <<>>
    [] node.type \in {"BlockStatement", "Program"} -> HoistedOfList(node.body, 1)
    [] node.type = "IfStatement" ->
         HoistedNames(node.consequent) \o HoistedNames(node.alternate)
    [] node.type = "ForStatement" -> HoistedNames(node.init) \o HoistedNames(node.body)
    [] node.type \in {"ForInStatement", "ForOfStatement"} ->
         HoistedNames(node.left) \o HoistedNames(node.body)
    [] node.type = "SwitchStatement" -> HoistedOfList(node.cases, 1)
    [] node.type = "SwitchCase" -> HoistedOfList(node.consequent, 1)
    [] node.type = "TryStatement" ->
         HoistedNames(node.block) \o HoistedNames(node.handler)
           \o HoistedNames(node.finalizer)
    [] node.type = "CatchClause" -> HoistedNames(node.body)
    [] OTHER -> <<>>

\* The names Scope.lexicalVisitors records: it stops at blocks, loops,
\* switches and functions, so only a declaration reached without crossing
\* one of them is seen.
RECURSIVE LexicalNames(_)
LexicalNames(node) ==
  CASE node.type = "VariableDeclaration" ->
         IF node.kind \in {"let", "const"}
         THEN DeclaredNames(node.declarations,
                            IF node.kind = "let" THEN "Let" ELSE "Const", 1)
         ELSE <<>>
    [] node.type = "IfStatement" ->
         LexicalNames(node.consequent) \o LexicalNames(node.alternate)
    [] OTHER -> <<>>

\* Scope.walk
ScopeWalk(scope, node) ==
  LET s1 == IF scope.forLexical THEN scope
            ELSE [scope EXCEPT !.vars = SetVars(@, HoistedNames(node), 1)]
  IN [s1 EXCEPT !.vars = SetVars(@, LexicalNames(node), 1)]

\* Scope.walkArray
RECURSIVE ScopeWalkArray(_, _, _)
ScopeWalkArray(scope, nodes, i) ==
  IF i > Len(nodes) THEN scope
  ELSE ScopeWalkArray(ScopeWalk(scope, nodes[i]), nodes, i + 1)

RECURSIVE ParamNames(_, _)
ParamNames(params, i) ==
  IF i > Len(params) THEN <<>>
  ELSE LET xs == CollectIdentifiers(params[i])
       IN [j \in 1..Len(xs) |-> [name |-> xs[j], kind |-> "Param"]]
            \o ParamNames(params, i + 1)

\* Scope.walkFunction
ScopeWalkFunction(scope, func, isExpr) ==
  LET v1 == IF isExpr /\ func.id.type # "null"
            THEN SetVar(scope.vars, func.id.name, "Func") ELSE scope.vars
      v2 == SetVar(v1, "arguments", "Arguments")
      v3 == SetVars(v2, ParamNames(func.params, 1), 1)
  IN ScopeWalk([scope EXCEPT !.vars = v3], func.body)

\* Scope.walkCatch
ScopeWalkCatch(scope, node) ==
  IF node.param.type = "null" THEN scope
  ELSE LET xs == CollectIdentifiers(node.param)
       IN [scope EXCEPT !.vars =
             SetVars(@, [j \in 1..Len(xs) |-> [name |-> xs[j], kind |-> "CatchParam"]], 1)]

-----------------------------------------------------------------------------
(* The walker.  st is the State object together with the module-level      *)
(* numId and idToLoc it updates:                                           *)
(*   out, indentLevel, scope, isLHS   fields of State                      *)
(*   numId, idToLoc                   the id registry                      *)
(*   allocs                           the newId calls made, in order       *)
(*   visits                           the Identifier nodes visited, in     *)
(*                                    order, with isLHS at the visit and   *)
(*                                    the position written to              *)
(*   err                              TRUE once todo() has thrown: the     *)
(*                                    rest of the walk is not executed     *)

ID_INC_STEP == 1

\* `${EXCEPTION_VAR}`, `${TEMP_PARAM_VAR}` and `${LOG_TEMP_VAR}`
ExcVarT == Tok("var", "EXCEPTION_VAR", 0, <<>>)

TmpParamT == Tok("var", "TEMP_PARAM_VAR", 0, <<>>)

TmpVarT == Tok("var", "LOG_TEMP_VAR", 0, <<>>)

\* new State(options), over the registry as it stands
NewState(n, table) ==
  [out |-> <<>>, indentLevel |-> 0, scope |-> <<>>, isLHS |-> FALSE,
   numId |-> n, idToLoc |-> table, allocs |-> <<>>, visits |-> <<>>, err |-> FALSE]

\* idToLoc[id] = entry
PutLoc(table, id, entry) ==
  [i \in (DOMAIN table) \cup {id} |-> IF i = id THEN entry ELSE table[i]]

\* the 4-tuple with the parser's 0-based columns kept
LocEntryZeroBased(loc) == <<loc[1], loc[2], loc[3], loc[4]>>

\* the recorded 4-tuple: columns are shifted to 1-based
LocEntry(loc) == <<loc[1], loc[2] + 1, loc[3], loc[4] + 1>>

HasLoc(node) == "loc" \in DOMAIN node

\* newId(node): the id returned is st.numId
NewId(st, node) ==
  IF st.err THEN st
  ELSE [st EXCEPT !.numId = @ + ID_INC_STEP,
                  !.idToLoc = IF HasLoc(node)
                              THEN PutLoc(@, st.numId, LocEntry(node.loc)) ELSE @,
                  !.allocs = Append(@, [id |-> st.numId,
                                        loc |-> IF HasLoc(node) THEN node.loc ELSE <<>>])]

\* todo(msg): throws
Todo(st) == [st EXCEPT !.err = TRUE]

\* state.write(str)
Write(st, toks) == IF st.err THEN st ELSE [st EXCEPT !.out = @ \o toks]

\* state.writeln(str)
Writeln(st, toks) == Write(st, <<NL(st.indentLevel)>> \o toks)

\* state.wrap(body): indentLevel++ before the body, indentLevel-- after it
WrapIn(st) == IF st.err THEN st ELSE [st EXCEPT !.indentLevel = @ + 1]

WrapOut(st) == IF st.err THEN st ELSE [st EXCEPT !.indentLevel = @ - 1]

\* state.createScope(body, forLexical), frame being the new Scope after body(scope)
CreateScope(st, frame) ==
  IF st.err THEN st ELSE [st EXCEPT !.scope = <<frame>> \o @]

RECURSIVE Walk(_, _)

LogScriptEnter(st, program) ==
  Writeln(NewId(st, program),
          <<Hook("Se"), Txt("("), IdT(st.numId), Txt(", "), Str("instrumentedPath"),
            Txt(", "), Str("originalPath"), Txt(");")>>)

LogScriptExit(st, program) ==
  Writeln(NewId(st, program), <<Hook("Sx"), Txt("("), IdT(st.numId), Txt(");")>>)

LogFuncEnter(st, func) ==
  Writeln(NewId(st, func),
          <<Hook("Fe"), Txt("("), IdT(st.numId), Txt(", "),
            Txt("arguments.callee, this, arguments"), Txt(");")>>)

LogFuncExit(st, func) ==
  Writeln(NewId(st, func), <<Hook("Fx"), Txt("("), IdT(st.numId), Txt(");")>>)

LogException(st, program) ==
  Writeln(NewId(st, program),
          <<Hook("X"), Txt("("), IdT(st.numId), Txt(", "), ExcVarT, Txt(");")>>)

LogExpression(st, expr) ==
  LET s1 == Write(NewId(st, expr), <<Hook("E"), Txt("("), IdT(st.numId), Txt(", ")>>)
  IN Write(Walk(s1, expr), <<Txt(")")>>)

\* The body callbacks handed to logWrite and logPutField:
\*   "logExpression"  () => logExpression(state, node)
\*   "walk"           () => state.walk(node)
\*   "write"          () => state.write(tok)
BodyOf(k, node, tok) == [k |-> k, node |-> node, tok |-> tok]

ApplyBody(st, b) ==
  CASE b.k = "logExpression" -> LogExpression(st, b.node)
    [] b.k = "walk" -> Walk(st, b.node)
    [] OTHER -> Write(st, <<b.tok>>)

\* object and property of a member expression, as logGetField and
\* logPutField both write them
MemberParts(st, m) ==
  LET s1 == IF m.object.type = "Super" THEN Todo(st) ELSE Walk(st, m.object)
      s2 == Write(s1, <<Txt(", ")>>)
  IN CASE m.property.type = "PrivateIdentifier" -> Todo(s2)
       [] m.computed -> Walk(s2, m.property)
       [] m.property.type = "Identifier" -> Write(s2, <<Str(m.property.name)>>)
       [] OTHER -> s2

LogGetField(st, expr) ==
  LET s1 == Write(NewId(st, expr), <<Hook("G"), Txt("("), IdT(st.numId), Txt(", ")>>)
  IN Write(MemberParts(s1, expr), <<Txt(")")>>)

LogPutField(st, lhs, rhs, b) ==
  LET s1 == Write(NewId(st, lhs), <<Hook("P"), Txt("("), IdT(st.numId), Txt(", ")>>)
      s2 == Write(MemberParts(s1, lhs), <<Txt(", ")>>)
  IN Write(ApplyBody(s2, b), <<Txt(")")>>)

\* [${xs.map(x => `"${x}"`).join(', ')}]
RECURSIVE NameList(_, _)
NameList(xs, i) ==
  IF i > Len(xs) THEN <<>>
  ELSE (IF i > 1 THEN <<Txt(", ")>> ELSE <<>>) \o <<Str(xs[i])>> \o NameList(xs, i + 1)

LogWrite(st, lhs, rhs, b) ==
  IF lhs.type = "MemberExpression" THEN LogPutField(st, lhs, rhs, b)
  ELSE LET s1 == Write(NewId(st, rhs),
                       <<Txt(lhs.name), Txt(" = "), Hook("W"), Txt("("), IdT(st.numId),
                         Txt(", ")>>)
           s2 == Write(s1, <<Txt("[")>> \o NameList(CollectIdentifiers(lhs), 1)
                             \o <<Txt("], ")>>)
       IN Write(ApplyBody(s2, b), <<Txt(")")>>)

\* a variant of logBinaryOp that prints the right operand first
LogBinaryOpRightFirst(st, expr) ==
  LET s1 == Write(NewId(st, expr),
                  <<Hook("B"), Txt("("), IdT(st.numId), Txt(", "), Str(expr.operator),
                    Txt(", ")>>)
      s2 == Write(Walk(s1, expr.right), <<Txt(", ")>>)
  IN Write(Walk(s2, expr.left), <<Txt(")")>>)

LogBinaryOp(st, expr) ==
  LET s1 == Write(NewId(st, expr),
                  <<Hook("B"), Txt("("), IdT(st.numId), Txt(", "), Str(expr.operator),
                    Txt(", ")>>)
      s2 == Write(Walk(s1, expr.left), <<Txt(", ")>>)
  IN Write(Walk(s2, expr.right), <<Txt(")")>>)

LogUnaryOp(st, expr) ==
  LET s1 == Write(NewId(st, expr),
                  <<Hook("U"), Txt("("), IdT(st.numId), Txt(", "), Str(expr.operator),
                    Txt(", ")>>)
  IN Write(Walk(s1, expr.argument), <<Txt(")")>>)

\* logUpdateOp with one newId call whose id is printed twice
LogUpdateOpOneId(st, expr) ==
  LET s1 == NewId(st, expr)
      s2 == Write(s1, <<Hook("Up"), Txt("("), IdT(st.numId), Txt(", "),
                        IdT(st.numId), Txt(", "), Str(expr.operator),
                        Txt(", "), Txt(IF expr.prefix THEN "true" ELSE "false"),
                        Txt(", ")>>)
      s3 == Write(Walk(s2, expr.argument), <<Txt(", "), TmpParamT, Txt(" => ")>>)
      s4 == LogWrite(s3, expr.argument, expr.argument, BodyOf("write", Null, TmpParamT))
  IN Write(s4, <<Txt(")")>>)

LogUpdateOp(st, expr) ==
  LET s1 == NewId(NewId(st, expr), expr)
      s2 == Write(s1, <<Hook("Up"), Txt("("), IdT(st.numId), Txt(", "),
                        IdT(st.numId + ID_INC_STEP), Txt(", "), Str(expr.operator),
                        Txt(", "), Txt(IF expr.prefix THEN "true" ELSE "false"),
                        Txt(", ")>>)
      s3 == Write(Walk(s2, expr.argument), <<Txt(", "), TmpParamT, Txt(" => ")>>)
      s4 == LogWrite(s3, expr.argument, expr.argument, BodyOf("write", Null, TmpParamT))
  IN Write(s4, <<Txt(")")>>)

LogCondition(st, test, kind, end) ==
  LET s1 == Write(NewId(st, test),
                  <<Hook("C"), Txt("("), IdT(st.numId), Txt(", "), Str(kind), Txt(", ")>>)
      s2 == IF end THEN LogExpression(s1, test) ELSE Walk(s1, test)
  IN Write(s2, <<Txt(")")>>)

LogSwitchLeft(st, discriminant) ==
  LET s1 == Write(NewId(st, discriminant),
                  <<Hook("Swl"), Txt("("), IdT(st.numId), Txt(", ")>>)
  IN Write(LogExpression(s1, discriminant), <<Txt(")")>>)

LogSwitchRight(st, test) ==
  LET s1 == Write(NewId(st, test), <<Hook("Swr"), Txt("("), IdT(st.numId), Txt(", ")>>)
  IN Write(LogExpression(s1, test), <<Txt(")")>>)

\* one declare call of logDeclare
DeclareCall(st, node, v) ==
  LET isTDZ == v.kind = "Const" \/ v.kind = "Let"
      head == <<Hook("D"), Txt("("), IdT(st.numId), Txt(", "), Str(v.name), Txt(", "),
                KindT(v.kind)>>
  IN IF isTDZ
     THEN Writeln(NewId(st, node), head \o <<Txt(");")>>)
     ELSE Writeln(NewId(st, node), head \o <<Txt(", "), Txt(v.name), Txt(");")>>)

RECURSIVE DeclareFrom(_, _, _, _)
DeclareFrom(st, node, vs, i) ==
  IF i > Len(vs) THEN st
  ELSE DeclareFrom(DeclareCall(st, node, vs[i]), node, vs, i + 1)

LogDeclare(st, node) ==
  IF st.scope = <<>> THEN st ELSE DeclareFrom(st, node, st.scope[1].vars, 1)

LogRead(st, node, name) ==
  Write(NewId(st, node),
        <<Hook("R"), Txt("("), IdT(st.numId), Txt(", "), Str(name), Txt(", "),
          Txt(name), Txt(")")>>)

\* logLiteral without a body: the literal's own text
LogLiteral(st, literal) ==
  Write(NewId(st, literal),
        <<Hook("L"), Txt("("), IdT(st.numId), Txt(", "), Txt(literal.raw), Txt(")")>>)

LogCall(st, callee, isConstructor) ==
  IF callee.type = "MemberExpression" THEN Todo(st)
  ELSE IF callee.type = "Super" THEN Todo(st)
  ELSE LET s1 == Write(NewId(st, callee),
                       <<Hook("F"), Txt("("), IdT(st.numId), Txt(", ")>>)
       IN Write(Walk(s1, callee),
                <<Txt(", "), Txt(IF isConstructor THEN "true" ELSE "false"), Txt(")")>>)

LogReturn(st, node) ==
  LET arg == node.argument
      s1 == Write(NewId(st, IF arg.type # "null" THEN arg ELSE node),
                  <<Hook("Re"), Txt("("), IdT(st.numId), Txt(", ")>>)
      s2 == IF arg.type # "null" THEN LogExpression(s1, arg)
            ELSE Write(s1, <<Txt("undefined")>>)
  IN Write(s2, <<Txt(")")>>)

LogThrow(st, arg) ==
  LET s1 == Write(NewId(st, arg), <<Hook("Th"), Txt("("), IdT(st.numId), Txt(", ")>>)
  IN Write(LogExpression(s1, arg), <<Txt(")")>>)

LogForInOfObject(st, expr, isForIn) ==
  LET s1 == Write(NewId(st, expr), <<Hook("O"), Txt("("), IdT(st.numId), Txt(", ")>>)
  IN Write(Walk(s1, expr),
           <<Txt(", "), Txt(IF isForIn THEN "true" ELSE "false"), Txt(")")>>)

\* state.walkArray(nodes, sep)
RECURSIVE WalkArray(_, _, _, _)
WalkArray(st, nodes, sep, i) ==
  IF i > Len(nodes) THEN st
  ELSE WalkArray(Walk(IF i > 1 THEN Write(st, <<Txt(sep)>>) ELSE st, nodes[i]),
                 nodes, sep, i + 1)

\* for (const statement of body) { state.writeln(''); state.walk(statement); }
RECURSIVE WalkStatements(_, _, _)
WalkStatements(st, stmts, i) ==
  IF i > Len(stmts) THEN st
  ELSE WalkStatements(Walk(Writeln(st, <<>>), stmts[i]), stmts, i + 1)

\* withLHS leaving isLHS set when the body is done
WithLHSArrayNoRestore(st, nodes) ==
  WalkArray([st EXCEPT !.isLHS = TRUE], nodes, ", ", 1)

\* state.withLHS(() => state.walkArray(nodes))
WithLHSArray(st, nodes) ==
  LET prev == st.isLHS
      s1 == WalkArray([st EXCEPT !.isLHS = TRUE], nodes, ", ", 1)
  IN IF s1.err THEN s1 ELSE [s1 EXCEPT !.isLHS = prev]

\* logFunc writing the exit hook into the catch block
LogFuncExitInCatch(st, node, isExpr) ==
  LET s1 == CreateScope(st, ScopeWalkFunction(NewScope(FALSE), node, isExpr))
      s2 == Write(WithLHSArray(Write(s1, <<Txt("(")>>), node.params), <<Txt(") {")>>)
      s3 == WrapIn(Writeln(WrapIn(s2), <<Txt("try {")>>))
      s4 == LogDeclare(LogFuncEnter(s3, node), node)
      s5 == IF node.body.type = "BlockStatement"
            THEN WalkStatements(s4, node.body.body, 1) ELSE Todo(s4)
      s6 == Writeln(WrapOut(s5), <<Txt("} catch ("), ExcVarT, Txt(") {")>>)
      s7 == WrapOut(LogFuncExit(LogException(WrapIn(s6), node), node))
      s8 == Writeln(s7, <<Txt("} finally {")>>)
  IN Writeln(WrapOut(Writeln(s8, <<Txt("}")>>)), <<Txt("}")>>)

LogFunc(st, node, isExpr) ==
  LET s1 == CreateScope(st, ScopeWalkFunction(NewScope(FALSE), node, isExpr))
      s2 == Write(WithLHSArray(Write(s1, <<Txt("(")>>), node.params), <<Txt(") {")>>)
      s3 == WrapIn(Writeln(WrapIn(s2), <<Txt("try {")>>))
      s4 == LogDeclare(LogFuncEnter(s3, node), node)
      s5 == IF node.body.type = "BlockStatement"
            THEN WalkStatements(s4, node.body.body, 1) ELSE Todo(s4)
      s6 == Writeln(WrapOut(s5), <<Txt("} catch ("), ExcVarT, Txt(") {")>>)
      s7 == WrapOut(LogException(WrapIn(s6), node))
      s8 == Writeln(s7, <<Txt("} finally {")>>)
      s9 == WrapOut(LogFuncExit(WrapIn(s8), node))
  IN Writeln(WrapOut(Writeln(s9, <<Txt("}")>>)), <<Txt("}")>>)

LogFuncDeclare(st, node, isExpr) ==
  LET s1 == Write(st, <<Txt(IF node.async THEN "async " ELSE "")>>)
      s2 == Write(s1, <<Txt(IF node.generator THEN "function* " ELSE "function ")>>)
      s3 == IF node.id.type # "null" THEN Write(s2, <<Txt(node.id.name)>>) ELSE s2
  IN LogFunc(s3, node, isExpr)

LogForInOfStatement(st, node, isForIn, isAwait) ==
  LET left == node.left
      s1 == Write(st, <<Txt("for "), Txt(IF isAwait THEN "await " ELSE ""), Txt("("),
                        TmpVarT, Txt(IF isForIn THEN " in " ELSE " of ")>>)
      s2 == WrapIn(Write(LogForInOfObject(s1, node.right, TRUE), <<Txt(") {")>>))
      s3 == CreateScope(s2, ScopeWalk(NewScope(TRUE), left))
      s4 == Writeln(LogDeclare(s3, left), <<>>)
      isDecl == left.type = "VariableDeclaration"
      s5 == IF isDecl THEN Write(s4, <<Txt(left.kind), Txt(" ")>>) ELSE s4
      id == IF isDecl THEN left.declarations[1].id ELSE left
      s6 == Write(LogWrite(s5, id, node.right, BodyOf("write", Null, TmpVarT)),
                  <<Txt(";")>>)
      s7 == Walk(Writeln(s6, <<>>), node.body)
  IN Writeln(WrapOut(s7), <<Txt("}")>>)

VisitIdentifier(st, node) ==
  LET s1 == [st EXCEPT !.visits = Append(@, [node |-> node, isLHS |-> st.isLHS,
                                             at |-> Len(st.out) + 1])]
  IN IF s1.isLHS THEN Write(s1, <<Txt(node.name)>>) ELSE LogRead(s1, node, node.name)

VisitProgram(st, node) ==
  LET s1 == CreateScope(st, ScopeWalkArray(NewScope(FALSE), node.body, 1))
      s2 == WrapIn(Writeln(s1, <<Txt("try {")>>))
      s3 == LogDeclare(LogScriptEnter(s2, node), node)
      s4 == WalkStatements(s3, node.body, 1)
      s5 == Writeln(WrapOut(s4), <<Txt("} catch ("), ExcVarT, Txt(") {")>>)
      s6 == WrapOut(LogException(WrapIn(s5), node))
      s7 == Writeln(s6, <<Txt("} finally {")>>)
      s8 == WrapOut(LogScriptExit(WrapIn(s7), node))
  IN Writeln(s8, <<Txt("}")>>)

VisitExpressionStatement(st, node) ==
  Write(LogExpression(st, node.expression), <<Txt(";")>>)

VisitBlockStatement(st, node) ==
  LET s1 == CreateScope(st, ScopeWalkArray(NewScope(TRUE), node.body, 1))
      s2 == LogDeclare(WrapIn(Write(s1, <<Txt("{")>>)), node)
      s3 == WalkStatements(s2, node.body, 1)
  IN Writeln(WrapOut(s3), <<Txt("}")>>)

VisitReturnStatement(st, node) ==
  LET s1 == Write(st, <<Txt("return")>>)
      s2 == IF node.argument.type # "null" THEN Write(s1, <<Txt(" ")>>) ELSE s1
  IN Write(LogReturn(s2, node), <<Txt(";")>>)

VisitIfStatement(st, node) ==
  LET s1 == LogCondition(Write(st, <<Txt("if (")>>), node.test, "if", TRUE)
      s2 == Walk(Write(s1, <<Txt(") ")>>), node.consequent)
  IN IF node.alternate.type # "null"
     THEN Walk(Write(s2, <<Txt(" else ")>>), node.alternate)
     ELSE s2

VisitSwitchCase(st, node) ==
  LET s1 == IF node.test.type # "null"
            THEN Write(LogSwitchRight(Write(st, <<Txt("case ")>>), node.test),
                       <<Txt(":")>>)
            ELSE Write(st, <<Txt("default:")>>)
  IN WrapOut(WalkStatements(WrapIn(s1), node.consequent, 1))

VisitSwitchStatement(st, node) ==
  LET s1 == LogSwitchLeft(Write(st, <<Txt("switch (")>>), node.discriminant)
      s2 == WalkStatements(WrapIn(Write(s1, <<Txt(") {")>>)), node.cases, 1)
  IN Writeln(WrapOut(s2), <<Txt("}")>>)

VisitThrowStatement(st, node) ==
  Write(LogThrow(Write(st, <<Txt("throw ")>>), node.argument), <<Txt(";")>>)

VisitTryStatement(st, node) ==
  LET s1 == Walk(Write(st, <<Txt("try ")>>), node.block)
      s2 == IF node.handler.type # "null"
            THEN Walk(Write(s1, <<Txt(" ")>>), node.handler) ELSE s1
  IN IF node.finalizer.type # "null"
     THEN Walk(Write(s2, <<Txt(" finally ")>>), node.finalizer)
     ELSE s2

VisitCatchClause(st, node) ==
  LET s1 == Write(CreateScope(st, ScopeWalkCatch(NewScope(FALSE), node)),
                  <<Txt("catch ")>>)
  IN IF node.param.type # "null"
     THEN LET s2 == Write(WithLHSArray(Write(s1, <<Txt("(")>>), <<node.param>>),
                          <<Txt(") {")>>)
              s3 == Writeln(LogDeclare(WrapIn(s2), node), <<>>)
          IN Writeln(WrapOut(Walk(s3, node.body)), <<Txt("}")>>)
     ELSE Walk(s1, node.body)

\* the head() of visitors.ForStatement
ForHead(st, node) ==
  LET init == node.init
      s1 == Write(st, <<Txt("for (")>>)
      s2 == IF init.type = "null" THEN s1
            ELSE IF init.type = "VariableDeclaration" THEN Walk(s1, init)
            ELSE Write(LogExpression(s1, init), <<Txt(";")>>)
      s3 == Write(s2, <<Txt(" ")>>)
      s4 == IF node.test.type # "null" THEN LogCondition(s3, node.test, "for", TRUE) ELSE s3
      s5 == Write(s4, <<Txt("; ")>>)
      s6 == IF node.update.type # "null" THEN LogExpression(s5, node.update) ELSE s5
  IN Write(s6, <<Txt(") ")>>)

VisitForStatement(st, node) ==
  LET init == node.init
  IN IF init.type = "VariableDeclaration" /\ init.kind \in {"let", "const"}
     THEN LET s1 == CreateScope(st, ScopeWalk(NewScope(TRUE), init))
              s2 == LogDeclare(WrapIn(Write(s1, <<Txt("{")>>)), init)
              s3 == Write(ForHead(Writeln(s2, <<>>), node), <<Txt("{")>>)
              s4 == Walk(Writeln(WrapIn(s3), <<>>), node.body)
              s5 == WrapOut(LogDeclare(s4, init))
          IN Writeln(WrapOut(Writeln(s5, <<Txt("}")>>)), <<Txt("}")>>)
     ELSE Walk(ForHead(st, node), node.body)

VisitVariableDeclaration(st, node) ==
  Write(WalkArray(Write(st, <<Txt(node.kind), Txt(" ")>>), node.declarations, ", ", 1),
        <<Txt(";")>>)

VisitVariableDeclarator(st, node) ==
  IF node.init.type = "null"
  THEN WithLHSArray(st, <<node.id>>)
  ELSE LogWrite(st, node.id, node.init, BodyOf("logExpression", node.init, Txt("")))

\* visitors.AssignmentExpression taking every operator for `=`
VisitAssignmentAnyOperator(st, node) ==
  LogWrite(st, node.left, node.right, BodyOf("walk", node.right, Txt("")))

VisitAssignmentExpression(st, node) ==
  IF node.operator = "="
  THEN LogWrite(st, node.left, node.right, BodyOf("walk", node.right, Txt("")))
  ELSE Todo(st)

\* visitors.FunctionDeclaration: logFuncDeclare(state, node, false), and
\* visitors.FunctionExpression:
\* logLiteral(state, node, () => logFuncDeclare(state, node, true))
VisitFunction(st, node) ==
  Write(LogFuncDeclare(IF node.type = "FunctionExpression"
                       THEN Write(NewId(st, node),
                                  <<Hook("L"), Txt("("), IdT(st.numId), Txt(", ")>>)
                       ELSE st,
                       node, node.type = "FunctionExpression"),
        IF node.type = "FunctionExpression" THEN <<Txt(")")>> ELSE <<>>)

VisitUnaryExpression(st, node) ==
  IF node.operator = "delete" THEN Todo(st) ELSE LogUnaryOp(st, node)

VisitLogicalExpression(st, node) ==
  LET s1 == LogCondition(st, node.left, node.operator, FALSE)
  IN Walk(Write(s1, <<Txt(" " \o node.operator \o " ")>>), node.right)

VisitConditionalExpression(st, node) ==
  LET s1 == LogCondition(st, node.test, "?", FALSE)
      s2 == Walk(Write(s1, <<Txt(" ? ")>>), node.consequent)
  IN Walk(Write(s2, <<Txt(" : ")>>), node.alternate)

VisitNewExpression(st, node) == Todo(st)

VisitCallExpression(st, node) ==
  LET s1 == Write(LogCall(st, node.callee, FALSE), <<Txt("(")>>)
  IN Write(WalkArray(s1, node.arguments, ", ", 1), <<Txt(")")>>)

\* state.walk(node): visitors[node.type](node, this)
Walk(st, node) ==
  IF st.err THEN st
  ELSE CASE node.type = "Identifier" -> VisitIdentifier(st, node)
         [] node.type = "Literal" -> LogLiteral(st, node)
         [] node.type = "Program" -> VisitProgram(st, node)
         [] node.type = "ExpressionStatement" -> VisitExpressionStatement(st, node)
         [] node.type = "BlockStatement" -> VisitBlockStatement(st, node)
         [] node.type = "ReturnStatement" -> VisitReturnStatement(st, node)
         [] node.type = "IfStatement" -> VisitIfStatement(st, node)
         [] node.type = "SwitchStatement" -> VisitSwitchStatement(st, node)
         [] node.type = "SwitchCase" -> VisitSwitchCase(st, node)
         [] node.type = "ForStatement" -> VisitForStatement(st, node)
         [] node.type = "ForInStatement" -> LogForInOfStatement(st, node, TRUE, FALSE)
         [] node.type = "ForOfStatement" -> LogForInOfStatement(st, node, FALSE, node.await)
         [] node.type \in {"FunctionDeclaration", "FunctionExpression"} ->
              VisitFunction(st, node)
         [] node.type = "VariableDeclaration" -> VisitVariableDeclaration(st, node)
         [] node.type = "VariableDeclarator" -> VisitVariableDeclarator(st, node)
         [] node.type = "UpdateExpression" -> LogUpdateOp(st, node)
         [] node.type = "BinaryExpression" -> LogBinaryOp(st, node)
         [] node.type = "UnaryExpression" -> VisitUnaryExpression(st, node)
         [] node.type = "ThrowStatement" -> VisitThrowStatement(st, node)
         [] node.type = "TryStatement" -> VisitTryStatement(st, node)
         [] node.type = "CatchClause" -> VisitCatchClause(st, node)
         [] node.type = "LogicalExpression" -> VisitLogicalExpression(st, node)
         [] node.type = "ConditionalExpression" -> VisitConditionalExpression(st, node)
         [] node.type = "NewExpression" -> VisitNewExpression(st, node)
         [] node.type = "AssignmentExpression" -> VisitAssignmentExpression(st, node)
         [] node.type = "MemberExpression" -> LogGetField(st, node)
         [] node.type = "CallExpression" -> VisitCallExpression(st, node)
         [] OTHER -> Todo(st)

-----------------------------------------------------------------------------
(* The driver: instrument(code)                                            *)

\* code.indexOf(NO_INSTRUMENT): the first position of tok in text, or -1
IndexOf(text, tok) ==
  IF \E i \in 1..Len(text) : text[i] = tok
  THEN CHOOSE i \in 1..Len(text) :
         text[i] = tok /\ \A j \in 1..(i - 1) : text[j] # tok
  ELSE -1

\* parse(code): acorn's AST of the source program the text holds
Parse(text) ==
  LET i == CHOOSE i \in 1..Len(text) : text[i].k = "src"
  IN ProgramAt(text[i].n)

\* JSON.stringify(idToLoc): the members in ascending order of id
RECURSIVE SerializeFrom(_, _, _)
SerializeFrom(table, i, n) ==
  IF i >= n THEN <<>>
  ELSE (IF i \in DOMAIN table THEN <<EntryT(i, table[i])>> ELSE <<>>)
         \o SerializeFrom(table, i + 1, n)

\* `${NO_INSTRUMENT}\n${DYNAJS_VAR}.ids = ${JSON.stringify(idToLoc)};\n`
Preamble(table, n) ==
  <<MarkerT, NL(0), Tok("var", "DYNAJS_VAR.ids", 0, <<>>), Txt(" = "), Txt("{")>>
    \o SerializeFrom(table, 0, n) \o <<Txt("}"), Txt(";"), NL(0)>>

\* what instrument() returns and leaves behind, when its walk, if not skipped,
\* ended in the state walked
Returned(text, skip, walked) ==
  [threw |-> walked.err,
   numId |-> walked.numId,
   idToLoc |-> walked.idToLoc,
   allocs |-> walked.allocs,
   output |-> IF walked.err THEN <<>>
              ELSE Preamble(walked.idToLoc, walked.numId)
                     \o (IF skip THEN text
                         ELSE <<Txt("// INSTRUMENTED BY DYNAJS"), NL(0)>> \o walked.out)]

\* the body of instrument(), skip telling whether the marker was found
InstrumentWith(text, state, skip) ==
  Returned(text, skip, IF skip THEN state ELSE Walk(state, Parse(text)))

\* instrument() looking for the marker at the start of the text only
InstrumentMarkerAtStart(text, n, table) ==
  InstrumentWith(text, NewState(n, table), text # <<>> /\ text[1] = MarkerT)

\* instrument(code) run with the registry at (n, table): the text returned,
\* whether the call threw, and the registry it leaves behind
Instrument(text, n, table) ==
  InstrumentWith(text, NewState(n, table), IndexOf(text, MarkerT) # -1)

-----------------------------------------------------------------------------
(* The runtime (analysis.ts).  A JavaScript value is a record [t, v]: the  *)
(* result of typeof and a number.  rt is the module state of analysis.ts:  *)
(* [returnStack, uncaughtException, switchLeft, switchStack]; the stacks   *)
(* grow at the end, as push and pop do.  A hook is an operator from rt,    *)
(* its arguments and what the analysis callback does to                    *)
(* [rt, ret, events, thrown]: the module state it leaves, the value it     *)
(* returns, the callbacks it fired in order and the exception it threw.    *)

Undef == [t |-> "undefined", v |-> 0]

Num(n) == [t |-> "number", v |-> n]

Bool(b) == [t |-> "boolean", v |-> IF b THEN 1 ELSE 0]

\* what err() throws
ErrV == [t |-> "error", v |-> 0]

\* ToBoolean
Truthy(x) == x.t = "error" \/ (x.t \in {"number", "boolean"} /\ x.v # 0)

\* `undefined` in the uncaught-exception slot, and "nothing thrown"
NoExc == [set |-> FALSE, exception |-> Undef]

\* the object { exception }, and "exception thrown"
Exc(exception) == [set |-> TRUE, exception |-> exception]

\* one call of the analysis callback cb
Ev(cb, id, op, args, exc) == [cb |-> cb, id |-> id, op |-> op, args |-> args, exc |-> exc]

Res(rt, ret, events, thrown) == [rt |-> rt, ret |-> ret, events |-> events, thrown |-> thrown]

\* Array.prototype.pop
Pop(stack) ==
  IF Len(stack) = 0 THEN [top |-> Undef, rest |-> <<>>]
  ELSE [top |-> stack[Len(stack)], rest |-> SubSeq(stack, 1, Len(stack) - 1)]

pushSwitchLeft(rt) == [rt EXCEPT !.switchStack = Append(@, rt.switchLeft)]

\* popSwitchLeft dropping the value it pops
popSwitchLeftDiscard(rt) == [rt EXCEPT !.switchStack = Pop(rt.switchStack).rest]

popSwitchLeft(rt) ==
  [rt EXCEPT !.switchLeft = Pop(rt.switchStack).top, !.switchStack = Pop(rt.switchStack).rest]

Se(rt, id) == Res(rt, Undef, <<Ev("scriptEnter", id, "", <<>>, NoExc)>>, NoExc)

\* cb is what the scriptExit callback does: [throws, v]
Sx(rt, id, cb) ==
  LET exc == rt.uncaughtException
      events == <<Ev("scriptExit", id, "", <<>>, exc)>>
  IN IF cb.throws THEN Res(rt, Undef, events, Exc(cb.v))
     ELSE IF exc.set
          THEN Res([rt EXCEPT !.uncaughtException = NoExc], Undef, events, Exc(exc.exception))
          ELSE Res(rt, Undef, events, NoExc)

\* invokeFun firing both callbacks before it calls f
InvokeFunCallFiresPost(rt, id, f) ==
  Res(rt, Undef,
      <<Ev("invokeFunPre", id, f, <<>>, NoExc), Ev("invokeFun", id, f, <<Undef>>, NoExc)>>,
      NoExc)

\* invokeFun up to the call of f: invokeFunPre is fired
InvokeFunCall(rt, id, f) == Res(rt, Undef, <<Ev("invokeFunPre", id, f, <<>>, NoExc)>>, NoExc)

\* invokeFun from the return of f: invokeFun is fired with the result
InvokeFunReturn(rt, id, f, result) ==
  Res(rt, result, <<Ev("invokeFun", id, f, <<result>>, NoExc)>>, NoExc)

\* a function that is not instrumented, an object, and a string
Fn == [t |-> "function", v |-> 0]

Obj(n) == [t |-> "object", v |-> n]

StrV == [t |-> "string", v |-> 0]

\* base[prop]: the objects of the model have one property, the method m
GetField(base, prop) == IF base.t = "object" /\ prop = "m" THEN Fn ELSE Undef

G(rt, id, base, prop) ==
  LET pre == Ev("getFieldPre", id, prop, <<base>>, NoExc)
  IN IF base = Undef THEN Res(rt, Undef, <<pre>>, Exc(ErrV))
     ELSE LET result == GetField(base, prop)
          IN Res(rt, result, <<pre, Ev("getField", id, prop, <<base, result>>, NoExc)>>, NoExc)

\* invokeFun for a function f that is not instrumented and returns result; what
\* f receives is `this` followed by its arguments
InvokeFun(rt, id, base, f, args, isConstructor, isMethod, result) ==
  LET how == IF isMethod THEN "method" ELSE "function"
      pre == Ev("invokeFunPre", id, how, args, NoExc)
  IN IF f.t # "function" THEN [Res(rt, Undef, <<pre>>, Exc(ErrV)) EXCEPT !.rt = rt]
     ELSE Res(rt, result, <<pre, Ev("invokeFun", id, how, <<result>>, NoExc)>>, NoExc)

\* `this` and the arguments f receives from invokeFun
Received(base, f, args, isConstructor) ==
  IF f.t # "function" THEN <<>>
  ELSE <<IF isConstructor THEN Obj(0) ELSE base>> \o args

\* the function F returns: a function expression, with its own `this` and
\* `arguments`
F(id, f, isConstructor) ==
  [id |-> id, f |-> f, isConstructor |-> isConstructor, isMethod |-> FALSE,
   arrow |-> FALSE, base |-> Undef, arguments |-> <<>>]

\* the function M returns: an arrow function, whose `arguments` is the
\* arguments object of the M call itself: id, base, prop, isConstructor
M(rt, id, base, prop, isConstructor) ==
  LET g == G(rt, id, base, prop)
  IN [g EXCEPT !.ret = [id |-> id, f |-> g.ret, isConstructor |-> isConstructor,
                        isMethod |-> TRUE, arrow |-> TRUE, base |-> base,
                        arguments |-> <<Num(id), base, StrV, Bool(isConstructor)>>]]

\* `this` and the arguments the wrapper w hands to invokeFun when it is called
\* on this with args
WrapperThis(w, this) == IF w.isMethod THEN w.base ELSE this

WrapperArguments(w, args) == IF w.arrow THEN w.arguments ELSE args

Fe(rt, id) ==
  Res(pushSwitchLeft([rt EXCEPT !.returnStack = Append(@, Undef)]), Undef,
      <<Ev("functionEnter", id, "", <<>>, NoExc)>>, NoExc)

\* cb is what the functionExit callback does: [throws, v]
Fx(rt, id, cb) ==
  LET exc == rt.uncaughtException
      ret == Pop(rt.returnStack).top
      r1 == popSwitchLeft([rt EXCEPT !.returnStack = Pop(rt.returnStack).rest])
      events == <<Ev("functionExit", id, "", <<ret>>, exc)>>
  IN IF cb.throws THEN Res(r1, Undef, events, Exc(cb.v))
     ELSE IF exc.set
          THEN Res([r1 EXCEPT !.uncaughtException = NoExc], Undef, events, Exc(exc.exception))
          ELSE Res(r1, Undef, events, NoExc)

\* cb is the value the callback returns
Re(rt, id, value, cb) ==
  Res(IF Len(rt.returnStack) = 0 THEN rt
      ELSE [rt EXCEPT !.returnStack[Len(rt.returnStack)] = value],
      value, <<Ev("_return", id, "", <<value>>, NoExc)>>, NoExc)

O(rt, id, value, isForIn, cb) ==
  Res(rt, value, <<Ev("forInOfObject", id, IF isForIn THEN "in" ELSE "of", <<value>>, NoExc)>>,
      NoExc)

E(rt, id, value, cb) == Res(rt, value, <<Ev("endExpression", id, "", <<value>>, NoExc)>>, NoExc)

UnaryOperators == {"-", "!", "void"}

UNARY_OPS(op, a) ==
  CASE op = "-" -> Num(0 - a.v)
    [] op = "!" -> Bool(~Truthy(a))
    [] op = "void" -> Undef

U(rt, id, op, operand) ==
  LET pre == Ev("unaryPre", id, op, <<operand>>, NoExc)
  IN IF op \notin UnaryOperators THEN Res(rt, Undef, <<pre>>, Exc(ErrV))
     ELSE LET result == UNARY_OPS(op, operand)
          IN Res(rt, result, <<pre, Ev("unaryPost", id, op, <<operand, result>>, NoExc)>>,
                 NoExc)

BinaryOperators == {"+", "-", "===", "<"}

BINARY_OPS(op, a, b) ==
  CASE op = "+" -> Num(a.v + b.v)
    [] op = "-" -> Num(a.v - b.v)
    [] op = "===" -> Bool(a = b)
    [] op = "<" -> Bool(a.v < b.v)

B(rt, id, op, left, right) ==
  LET pre == Ev("binaryPre", id, op, <<left, right>>, NoExc)
  IN IF op \notin BinaryOperators THEN Res(rt, Undef, <<pre>>, Exc(ErrV))
     ELSE LET result == BINARY_OPS(op, left, right)
          IN Res(rt, result,
                 <<pre, Ev("binaryPost", id, op, <<left, right, result>>, NoExc)>>, NoExc)

C(rt, id, op, value, cb) == Res(rt, value, <<Ev("condition", id, op, <<value>>, NoExc)>>, NoExc)

Swl(rt, id, value) == Res([rt EXCEPT !.switchLeft = value], value, <<>>, NoExc)

Swr(rt, id, caseValue) ==
  LET result == B(rt, id, "===", rt.switchLeft, caseValue)
      c == C(result.rt, id, "switch", result.ret, Undef)
  IN Res(c.rt, c.ret, result.events \o c.events, NoExc)

\* D telling from the value whether one was passed
DInitFromValue(rt, id, name, kind, rest) ==
  LET value == IF Len(rest) > 0 THEN rest[1] ELSE Undef
  IN Res(rt, Undef, <<Ev("declare", id, name, <<Bool(value # Undef), value>>, NoExc)>>, NoExc)

\* rest holds the arguments passed after kind: none, or the value
D(rt, id, name, kind, rest) ==
  LET init == 3 + Len(rest) >= 4
      value == IF Len(rest) > 0 THEN rest[1] ELSE Undef
  IN Res(rt, Undef, <<Ev("declare", id, name, <<Bool(init), value>>, NoExc)>>, NoExc)

R(rt, id, name, value, cb) == Res(rt, value, <<Ev("read", id, name, <<value>>, NoExc)>>, NoExc)

\* W handing on what the callback returned
WReturnsCallback(rt, id, names, value, cb) ==
  Res(rt, cb, <<Ev("write", id, names, <<value>>, NoExc)>>, NoExc)

W(rt, id, names, value, cb) == Res(rt, value, <<Ev("write", id, names, <<value>>, NoExc)>>, NoExc)

\* -(-a): ToNumber, for the numbers and booleans of the model
ToNumber(a) == Num(a.v)

\* Up: write is the closure `tmp => W(id, "name", name = tmp)` the
\* transformer emits for a variable target, given as [id, name].
\* First, Up returning its argument as it came for a postfix update.
UpReturnsArgument(rt, id, binaryId, op, prefix, argument, write) ==
  LET oldValue == ToNumber(argument)
      binaryOp == IF op = "++" THEN "+" ELSE "-"
      right == Num(1)
      newValue == IF op = "++" THEN Num(oldValue.v + right.v) ELSE Num(oldValue.v - right.v)
      w == W(rt, write.id, write.name, newValue, Undef)
      result == IF prefix THEN newValue ELSE argument
  IN Res(w.rt, result,
         <<Ev("unaryPre", id, op, <<Bool(prefix), argument>>, NoExc),
           Ev("binaryPre", binaryId, binaryOp, <<oldValue, right>>, NoExc),
           Ev("binaryPost", binaryId, binaryOp, <<oldValue, right, newValue>>, NoExc)>>
           \o w.events
           \o <<Ev("unaryPost", id, op, <<Bool(prefix), argument, result>>, NoExc)>>,
         NoExc)

Up(rt, id, binaryId, op, prefix, argument, write) ==
  LET oldValue == ToNumber(argument)
      binaryOp == IF op = "++" THEN "+" ELSE "-"
      right == Num(1)
      newValue == IF op = "++" THEN Num(oldValue.v + right.v) ELSE Num(oldValue.v - right.v)
      w == W(rt, write.id, write.name, newValue, Undef)
      result == IF prefix THEN newValue ELSE oldValue
  IN Res(w.rt, result,
         <<Ev("unaryPre", id, op, <<Bool(prefix), argument>>, NoExc),
           Ev("binaryPre", binaryId, binaryOp, <<oldValue, right>>, NoExc),
           Ev("binaryPost", binaryId, binaryOp, <<oldValue, right, newValue>>, NoExc)>>
           \o w.events
           \o <<Ev("unaryPost", id, op, <<Bool(prefix), argument, result>>, NoExc)>>,
         NoExc)

L(rt, id, value, cb) == Res(rt, value, <<Ev("literal", id, "", <<value>>, NoExc)>>, NoExc)

Th(rt, id, value, cb) == Res(rt, value, <<Ev("_throw", id, "", <<value>>, NoExc)>>, NoExc)

\* X storing the exception itself, not an object that holds it
XStoresValue(rt, id, exception) ==
  Res([rt EXCEPT !.uncaughtException = [set |-> Truthy(exception), exception |-> exception]],
      Undef, <<>>, NoExc)

X(rt, id, exception) ==
  Res([rt EXCEPT !.uncaughtException = Exc(exception)], Undef, <<>>, NoExc)

-----------------------------------------------------------------------------
(* The transformer process: a sequence of instrument() calls               *)

MarkerPlaces == {"none", "first", "last"}

\* the text of source program k, with the marker in a comment or without
SourceText(k, m) ==
  CASE m = "first" -> <<MarkerT, NL(0), SrcT(k)>>
    [] m = "last" -> <<SrcT(k), NL(0), MarkerT>>
    [] OTHER -> <<SrcT(k)>>

TInit ==
  /\ numId = 0
  /\ idToLoc = <<>>
  /\ code = <<>>
  /\ output = <<>>
  /\ threw = FALSE
  /\ allocs = <<>>
  /\ calls = 0
  /\ rerun = FALSE
  /\ wrote = FALSE

\* what the call instrumentFile() of a file holding text, r being the result
\* of its instrument(text) call, leaves in the process: writeFile is reached
\* when instrument() returned
Run(text, again, r) ==
  /\ numId' = r.numId
  /\ idToLoc' = r.idToLoc
  /\ code' = text
  /\ output' = r.output
  /\ threw' = r.threw
  /\ allocs' = r.allocs
  /\ calls' = calls + 1
  /\ rerun' = again
  /\ wrote' = ~r.threw
  /\ UNCHANGED rvars

\* instrument() on a source file
InstrumentSource ==
  /\ calls < MaxCalls
  /\ \E k \in SourceKinds, m \in MarkerPlaces :
       Run(SourceText(k, m), FALSE, Instrument(SourceText(k, m), numId, idToLoc))

\* instrument() on the text the previous call returned
\* instrument() on a program of the second pool
InstrumentRegion ==
  /\ calls < MaxCalls
  /\ \E k \in RegionKinds :
       \E r \in {Instrument(SourceText(k, "none"), numId, idToLoc)} :
         Run(SourceText(k, "none"), FALSE, r)

InstrumentOutput ==
  /\ calls < MaxCalls
  /\ calls > 0
  /\ ~threw
  /\ Run(output, TRUE, Instrument(output, numId, idToLoc))


-----------------------------------------------------------------------------
(* The program the runtime executes: the text instrument() returns for     *)
(* `function f(a) { let y = a; return y; }`.  Of that text the model keeps *)
(* the try/catch/finally statements logFunc and the Program visitor wrap   *)
(* around the function body and the script, with the hook calls they emit  *)
(* on lines of their own; the statements between them are the body, whose  *)
(* steps are chosen freely.                                                *)

RuntimeText == Instrument(SourceText(6, "none"), 0, <<>>).output

\* the line `level` levels deep that starts with kw
LineOf(text, level, kw) ==
  CHOOSE i \in 1..(Len(text) - 1) : text[i] = NL(level) /\ text[i + 1] = Txt(kw)

\* the hook call printed on the line starting at position i
CallAt(text, i) ==
  LET isD == text[i + 1] = Hook("D")
  IN [hook |-> text[i + 1].s,
      id |-> text[i + 3].n,
      name |-> IF isD THEN text[i + 5].s ELSE "",
      kind |-> IF isD THEN text[i + 7].s ELSE "",
      rest |-> IF isD /\ text[i + 8] = Txt(", ") THEN <<text[i + 9].s>> ELSE <<>>]

\* the hook calls on the lines `level` levels deep from position i up to position to
LineCalls(text, level, i, to) ==
  LET at == {j \in i..(to - 1) : text[j] = NL(level) /\ text[j + 1].k = "hook"}
  IN [n \in 1..Cardinality(at) |->
        CallAt(text, CHOOSE j \in at : Cardinality({k \in at : k < j}) = n - 1)]

\* the try statement whose keyword is `level` levels deep
Scaffold(text, level) ==
  LET t == LineOf(text, level, "try {")
      c == LineOf(text, level, "} catch (")
      f == LineOf(text, level, "} finally {")
      e == CHOOSE i \in (f + 1)..Len(text) :
             /\ text[i] = NL(level)
             /\ \A j \in (f + 1)..(i - 1) : text[j] # NL(level)
  IN [try |-> LineCalls(text, level + 1, t, c),
      catch |-> LineCalls(text, level + 1, c, f),
      finally |-> LineCalls(text, level + 1, f, e)]

\* the id of a hook call in the body of the function
SiteOf(text) ==
  LET t == LineOf(text, 2, "try {")
      c == LineOf(text, 2, "} catch (")
  IN text[(CHOOSE i \in t..c : text[i] = Hook("Re")) + 2].n

\* what is kept of the text: the try statement of the script, the one of the
\* function, and the site of the body
Program(text) ==
  [script |-> Scaffold(text, 0), func |-> Scaffold(text, 2), site |-> SiteOf(text)]

Scaf(kind) == IF kind = "script" THEN loaded.script ELSE loaded.func

BodySite == loaded.site

-----------------------------------------------------------------------------
(* Execution of the emitted code.  A frame is one activation of a script   *)
(* or of a function:                                                       *)
(*   kind            "script" or "func"                                    *)
(*   sec, idx        the block being executed ("try", "body", "catch",     *)
(*                   "finally", "done") and the hook call reached in it    *)
(*   e               the exception bound by the catch clause               *)
(*   comp            how the statement completes: [kind, v]                *)
(*   entered, exits, early, late, raised, exitExc, exitArgs, exitThrew,    *)
(*   lastRe, handled what has been observed of this activation: lastRe is  *)
(*                   the value of the last Re call made in it, handled     *)
(*                   tells whether a TryCatch step was taken in it         *)
(*   disc, nested    the discriminant of the last Swl call made in it (a   *)
(*                   list, empty if there was none), and whether a callee  *)
(*                   has stored another discriminant since                 *)

Normal == [kind |-> "normal", v |-> Undef]

Return(v) == [kind |-> "return", v |-> v]

Throw(v) == [kind |-> "throw", v |-> v]

NewFrame(kind) ==
  [kind |-> kind,
   sec |-> IF Len(Scaf(kind).try) = 0 THEN "body" ELSE "try",
   idx |-> 1,
   e |-> Undef,
   comp |-> Normal,
   entered |-> FALSE,
   exits |-> 0,
   early |-> FALSE,
   late |-> FALSE,
   raised |-> NoExc,
   exitExc |-> NoExc,
   exitArgs |-> <<>>,
   exitThrew |-> FALSE,
   lastRe |-> Undef,
   handled |-> FALSE,
   disc |-> <<>>,
   nested |-> FALSE]

\* control reaches the finally block
ToFinally(f) ==
  IF Len(Scaf(f.kind).finally) = 0 THEN [f EXCEPT !.sec = "done"]
  ELSE [f EXCEPT !.sec = "finally", !.idx = 1]

\* the exception v leaves the try block
ToCatch(f, v) ==
  IF Len(Scaf(f.kind).catch) = 0
  THEN ToFinally([f EXCEPT !.raised = Exc(v), !.comp = Throw(v)])
  ELSE [f EXCEPT !.sec = "catch", !.idx = 1, !.e = v, !.raised = Exc(v), !.comp = Normal]

\* the exception v arrives at a statement of the body; caught tells whether
\* the statement is inside a try statement of the program that catches it
Arrive(f, v, caught) == IF caught THEN f ELSE ToCatch(f, v)

\* the next statement after hook call idx of a block returned
AfterCall(f) ==
  IF f.idx < Len(Scaf(f.kind)[f.sec]) THEN [f EXCEPT !.idx = @ + 1]
  ELSE CASE f.sec = "try" -> [f EXCEPT !.sec = "body"]
         [] f.sec = "catch" -> ToFinally(f)
         [] f.sec = "finally" -> [f EXCEPT !.sec = "done"]

\* hook call idx of a block threw v
AfterThrow(f, v) ==
  CASE f.sec = "try" -> ToCatch(f, v)
    [] f.sec = "catch" -> ToFinally([f EXCEPT !.comp = Throw(v)])
    [] f.sec = "finally" -> [f EXCEPT !.sec = "done", !.comp = Throw(v)]

EnterEvents == {"scriptEnter", "functionEnter"}

ExitEvents == {"scriptExit", "functionExit"}

\* what the event ev shows of the activation f; own tells whether it is f
\* that is executing
Observe(f, ev, own) ==
  IF own /\ ev.cb \in EnterEvents
  THEN [f EXCEPT !.entered = TRUE, !.late = @ \/ f.exits > 0]
  ELSE IF own /\ ev.cb \in ExitEvents
       THEN [f EXCEPT !.exits = IF @ < 2 THEN @ + 1 ELSE @,
                      !.early = @ \/ ~f.entered,
                      !.exitExc = ev.exc,
                      !.exitArgs = ev.args]
       ELSE [f EXCEPT !.early = @ \/ ~f.entered, !.late = @ \/ f.exits > 0]

RECURSIVE ObserveAll(_, _, _, _)
ObserveAll(f, events, i, own) ==
  IF i > Len(events) THEN f
  ELSE ObserveAll(Observe(f, events[i], own), events, i + 1, own)

\* the frames fs after the innermost of them fired the events
Observed(fs, events) == [j \in 1..Len(fs) |-> ObserveAll(fs[j], events, 1, j = 1)]

\* the enter and pre events still open, after the event ev
TrackOne(o, ev) ==
  LET top == IF Len(o.open) = 0 THEN [cb |-> "", id |-> 0] ELSE o.open[Len(o.open)]
      push == [o EXCEPT !.open = Append(@, [cb |-> ev.cb, id |-> ev.id])]
      pop == [o EXCEPT !.open = Pop(o.open).rest]
  IN CASE ev.cb = "scriptEnter" -> push
       [] ev.cb = "invokeFunPre" -> push
       [] ev.cb = "functionEnter" ->
            [push EXCEPT !.bad = @ \/ top.cb # "invokeFunPre"]
       [] ev.cb = "functionExit" ->
            [pop EXCEPT !.bad = @ \/ top.cb # "functionEnter"]
       [] ev.cb = "scriptExit" ->
            [pop EXCEPT !.bad = @ \/ top.cb # "scriptEnter"]
       [] ev.cb = "invokeFun" ->
            [pop EXCEPT !.bad = @ \/ top # [cb |-> "invokeFunPre", id |-> ev.id]]
       [] OTHER -> o

RECURSIVE Track(_, _, _)
Track(o, events, i) ==
  IF i > Len(events) THEN o ELSE Track(TrackOne(o, events[i]), events, i + 1)

-----------------------------------------------------------------------------
(* The runtime process: scripts loaded one after the other in one process  *)

MaxDepth == 2

MaxNum == 1

Numbers == {Num(n) : n \in 0..MaxNum}

Values == {Undef} \cup Numbers

\* what an analysis callback returns
CbReturns == {Undef, Num(0)}

\* what a functionExit or scriptExit callback does
ExitCbs == {[throws |-> FALSE, v |-> Undef], [throws |-> TRUE, v |-> ErrV]}

RT ==
  [returnStack |-> returnStack, uncaughtException |-> uncaughtException,
   switchLeft |-> switchLeft, switchStack |-> switchStack]

NoCall ==
  [hook |-> "", id |-> 0, op |-> "", args |-> <<>>, cb |-> Undef, ret |-> Undef,
   threw |-> FALSE, events |-> <<>>, exit |-> <<>>, recv |-> <<>>]

\* the record of a hook call: its arguments, what the callback returned, and
\* the result r; exit is what functionExit was given when the call is the
\* return from an instrumented function, recv is `this` and the arguments a
\* function received that is not instrumented
CallOf(hook, id, op, args, cb, r) ==
  [hook |-> hook, id |-> id, op |-> op, args |-> args, cb |-> cb, ret |-> r.ret,
   threw |-> r.thrown.set, events |-> r.events, exit |-> <<>>, recv |-> <<>>]

RInit ==
  /\ returnStack = <<>>
  /\ uncaughtException = NoExc
  /\ switchLeft = Undef
  /\ switchStack = <<>>
  /\ frames = <<>>
  /\ last = NoCall
  /\ open = <<>>
  /\ bad = FALSE
  /\ host = NoExc
  /\ loaded = Program(RuntimeText)

\* the module state, the observations and the last call after the hook call
\* with result r, made by the innermost frame, which becomes f
Commit(r, f, call) ==
  LET o == Track([open |-> open, bad |-> bad], r.events, 1)
  IN /\ returnStack' = r.rt.returnStack
     /\ uncaughtException' = r.rt.uncaughtException
     /\ switchLeft' = r.rt.switchLeft
     /\ switchStack' = r.rt.switchStack
     /\ frames' = Observed(<<f>> \o Tail(frames), r.events)
     /\ last' = call
     /\ open' = o.open
     /\ bad' = o.bad
     /\ UNCHANGED <<host, loaded, tvars>>

\* the hook call c of the scaffold of frame f
CallHook(c, f, cb) ==
  CASE c.hook = "Se" -> Se(RT, c.id)
    [] c.hook = "Sx" -> Sx(RT, c.id, cb)
    [] c.hook = "Fe" -> Fe(RT, c.id)
    [] c.hook = "Fx" -> Fx(RT, c.id, cb)
    [] c.hook = "X" -> X(RT, c.id, f.e)
    [] c.hook = "D" -> D(RT, c.id, c.name, c.kind, [j \in 1..Len(c.rest) |-> Undef])

InBody == frames # <<>> /\ frames[1].sec = "body"

\* the host loads an instrumented script
Load ==
  /\ frames = <<>>
  /\ frames' = <<NewFrame("script")>>
  /\ last' = NoCall
  /\ host' = NoExc
  /\ UNCHANGED <<returnStack, uncaughtException, switchLeft, switchStack, open, bad,
               loaded, tvars>>

\* the next hook call of the try, catch or finally block
Step ==
  /\ frames # <<>>
  /\ frames[1].sec \in {"try", "catch", "finally"}
  /\ \E cb \in ExitCbs :
       LET f == frames[1]
           c == Scaf(f.kind)[f.sec][f.idx]
           r == CallHook(c, f, cb)
           g == IF c.hook \in {"Fx", "Sx"} THEN [f EXCEPT !.exitThrew = cb.throws] ELSE f
       IN /\ cb.throws => c.hook \in {"Fx", "Sx"}
          /\ Commit(r, IF r.thrown.set THEN AfterThrow(g, r.thrown.exception)
                       ELSE AfterCall(g),
                    CallOf(c.hook, c.id, "", <<>>, Undef, r))

\* a statement of the body calls one of the hooks that hand their value on
Evaluate ==
  /\ InBody
  /\ \E h \in {"O", "E", "C", "R", "W", "L"}, value \in Values, cb \in CbReturns :
       LET r == CASE h = "O" -> O(RT, BodySite, value, TRUE, cb)
                  [] h = "E" -> E(RT, BodySite, value, cb)
                  [] h = "C" -> C(RT, BodySite, "if", value, cb)
                  [] h = "R" -> R(RT, BodySite, "y", value, cb)
                  [] h = "W" -> W(RT, BodySite, "y", value, cb)
                  [] h = "L" -> L(RT, BodySite, value, cb)
       IN Commit(r, frames[1], CallOf(h, BodySite, "", <<value>>, cb, r))

\* a binary expression; "??" stands for an operator BINARY_OPS does not have
Binary ==
  /\ InBody
  /\ \E op \in BinaryOperators \cup {"??"}, left \in Numbers, right \in Numbers,
        caught \in BOOLEAN :
       LET r == B(RT, BodySite, op, left, right)
       IN /\ ~r.thrown.set => caught
          /\ Commit(r, IF r.thrown.set THEN Arrive(frames[1], r.thrown.exception, caught)
                       ELSE frames[1],
                    CallOf("B", BodySite, op, <<left, right>>, Undef, r))

\* a unary expression; "??" stands for an operator UNARY_OPS does not have
Unary ==
  /\ InBody
  /\ \E op \in UnaryOperators \cup {"??"}, operand \in Values, caught \in BOOLEAN :
       LET r == U(RT, BodySite, op, operand)
       IN /\ ~r.thrown.set => caught
          /\ Commit(r, IF r.thrown.set THEN Arrive(frames[1], r.thrown.exception, caught)
                       ELSE frames[1],
                    CallOf("U", BodySite, op, <<operand>>, Undef, r))

\* an update expression on a variable: `Up(id, binaryId, op, prefix, R(...),
\* tmp => W(...))`, binaryId being the id allocated after id
Update ==
  /\ InBody
  /\ \E op \in {"++", "--"}, prefix \in BOOLEAN, argument \in Numbers \cup {Bool(TRUE)} :
       LET r == Up(RT, BodySite, BodySite + ID_INC_STEP, op, prefix, argument,
                   [id |-> BodySite + 2 * ID_INC_STEP, name |-> "y"])
       IN Commit(r, frames[1], CallOf("Up", BodySite, op, <<Bool(prefix), argument>>, Undef, r))

\* `return Re(id, value);`
ReturnStmt ==
  /\ InBody
  /\ frames[1].kind = "func"
  /\ \E value \in Values, cb \in CbReturns :
       LET r == Re(RT, BodySite, value, cb)
           f == [frames[1] EXCEPT !.lastRe = value]
       IN Commit(r, ToFinally([f EXCEPT !.comp = Return(r.ret)]),
                 CallOf("Re", BodySite, "", <<value>>, cb, r))

\* `return Re(id, value);` inside a try statement of the program whose finally
\* block leaves by break or continue: the return is abandoned and the body
\* goes on
AbandonedReturn ==
  /\ InBody
  /\ frames[1].kind = "func"
  /\ \E value \in Numbers :
       LET r == Re(RT, BodySite, value, Undef)
       IN Commit(r, [frames[1] EXCEPT !.lastRe = value],
                 CallOf("Re", BodySite, "abandoned", <<value>>, Undef, r))

\* `try { throw Th(id, value); } catch (e) { D(id, "e", CatchParam, e); { } }`:
\* the clause of the statement catches the value and its body completes
TryCatch ==
  /\ InBody
  /\ \E value \in Values :
       LET t == Th(RT, BodySite, value, Undef)
           d == D(t.rt, BodySite, "e", "CatchParam", <<t.ret>>)
           r == Res(d.rt, Undef, t.events \o d.events, NoExc)
       IN Commit(r, [frames[1] EXCEPT !.handled = TRUE],
                 CallOf("Th", BodySite, "caught", <<value>>, Undef, r))

\* `throw Th(id, value);`
ThrowStmt ==
  /\ InBody
  /\ \E value \in Values, cb \in CbReturns, caught \in BOOLEAN :
       LET r == Th(RT, BodySite, value, cb)
       IN Commit(r, Arrive(frames[1], r.ret, caught),
                 CallOf("Th", BodySite, "", <<value>>, cb, r))

\* the values of the discriminants and of the case tests
SwitchValues == {Num(0), Bool(FALSE)}

\* the lists of case tests
CaseTests == {<<t>> : t \in SwitchValues} \cup {<<t, u>> : t, u \in SwitchValues}

\* the case clauses from i on of `switch (v) { case Swr(id, tests[1]): ... }`:
\* the tests are evaluated in order and compared to v with ===, up to the
\* first that is equal; ret is the number of the clause entered, 0 if none
RECURSIVE SwitchCases(_, _, _, _, _)
SwitchCases(rt, id, v, tests, i) ==
  IF i > Len(tests) THEN Res(rt, Num(0), <<>>, NoExc)
  ELSE LET s == Swr(rt, id, tests[i])
       IN IF v = s.ret THEN Res(s.rt, Num(i), s.events, NoExc)
          ELSE LET rest == SwitchCases(s.rt, id, v, tests, i + 1)
               IN Res(rest.rt, rest.ret, s.events \o rest.events, NoExc)

\* `switch (Swl(id, d)) { case Swr(id, t1): ... case Swr(id, t2): ... }`, up
\* to the choice of the clause
Switch ==
  /\ InBody
  /\ \E d \in SwitchValues, tests \in CaseTests :
       LET l == Swl(RT, BodySite, d)
           r == SwitchCases(l.rt, BodySite, l.ret, tests, 1)
       IN Commit(r, [frames[1] EXCEPT !.disc = <<d>>, !.nested = FALSE],
                 CallOf("Swl", BodySite, "switch", <<d>> \o tests, Undef, r))

\* `switch (Swl(id, d)) {`: the discriminant is evaluated and stored
SwitchLeft ==
  /\ InBody
  /\ \E d \in SwitchValues :
       LET r == Swl(RT, BodySite, d)
           f == [frames[1] EXCEPT !.disc = <<d>>, !.nested = FALSE]
           callers == IF Len(frames) > 1 /\ frames[2].disc \notin {<<>>, <<d>>}
                      THEN <<[frames[2] EXCEPT !.nested = TRUE]>> \o Tail(Tail(frames))
                      ELSE Tail(frames)
       IN /\ returnStack' = r.rt.returnStack
          /\ uncaughtException' = r.rt.uncaughtException
          /\ switchLeft' = r.rt.switchLeft
          /\ switchStack' = r.rt.switchStack
          /\ frames' = <<f>> \o callers
          /\ last' = CallOf("Swl", BodySite, "left", <<d>>, Undef, r)
          /\ UNCHANGED <<open, bad, host, loaded, tvars>>

\* `case Swr(id, t):` of the switch statement the activation is in; the test
\* t has been evaluated, with the calls it makes, since the Swl call or the
\* case before
SwitchRight ==
  /\ InBody
  /\ frames[1].disc # <<>>
  /\ \E t \in SwitchValues :
       LET r == Swr(RT, BodySite, t)
       IN Commit(r, frames[1], CallOf("Swr", BodySite, "case", <<t>>, Undef, r))

\* the end of the body is reached
EndBody ==
  /\ InBody
  /\ frames' = <<ToFinally(frames[1])>> \o Tail(frames)
  /\ last' = NoCall
  /\ UNCHANGED <<returnStack, uncaughtException, switchLeft, switchStack, open, bad, host,
               loaded, tvars>>

\* F(id, f, false)(...) with f an instrumented function: invokeFun runs up to
\* the call, and f is entered
CallFunction ==
  /\ InBody
  /\ Len(frames) <= MaxDepth
  /\ LET r == InvokeFunCall(RT, BodySite, "f")
         o == Track([open |-> open, bad |-> bad], r.events, 1)
     IN /\ frames' = <<NewFrame("func")>> \o Observed(frames, r.events)
        /\ last' = CallOf("invokeFunPre", BodySite, "f", <<>>, Undef, r)
        /\ open' = o.open
        /\ bad' = o.bad
        /\ UNCHANGED <<returnStack, uncaughtException, switchLeft, switchStack, host,
               loaded, tvars>>

\* F(id, f, false)(...) with f a function that is not instrumented: it returns
\* result, or throws it
CallNative ==
  /\ InBody
  /\ \E result \in Values, throws \in BOOLEAN, caught \in BOOLEAN :
       LET r1 == InvokeFunCall(RT, BodySite, "native")
           r2 == InvokeFunReturn(r1.rt, BodySite, "native", result)
           r == IF throws THEN Res(r1.rt, Undef, r1.events, Exc(result))
                ELSE Res(r2.rt, r2.ret, r1.events \o r2.events, NoExc)
           o == Track([open |-> open, bad |-> bad], r.events, 1)
       IN /\ ~throws => caught
          /\ frames' = Observed(<<IF throws THEN Arrive(frames[1], result, caught)
                                   ELSE frames[1]>> \o Tail(frames), r.events)
          /\ last' = CallOf("invokeFun", BodySite, "native", <<result>>, Undef, r)
          /\ open' = IF throws THEN Pop(o.open).rest ELSE o.open
          /\ bad' = o.bad
          /\ UNCHANGED <<returnStack, uncaughtException, switchLeft, switchStack, host,
               loaded, tvars>>

\* M(id, base, "m", false)(...args) with base.m a function that is not
\* instrumented and returns result
CallMethod ==
  /\ InBody
  /\ \E base \in {Obj(1)}, args \in {<<>>, <<Num(0)>>, <<Num(1), Undef>>},
        result \in Numbers :
       LET m == M(RT, BodySite, base, "m", FALSE)
           w == m.ret
           this == WrapperThis(w, Undef)
           passed == WrapperArguments(w, args)
           i == InvokeFun(m.rt, w.id, this, w.f, passed, w.isConstructor, w.isMethod,
                          result)
           r == Res(i.rt, i.ret, m.events \o i.events, i.thrown)
       IN Commit(r, frames[1],
                 [CallOf("M", BodySite, "m", <<base>> \o args, result, r)
                    EXCEPT !.recv = Received(this, w.f, passed, w.isConstructor)])

\* an instrumented function is left: invokeFun goes on from the call
Resume ==
  /\ Len(frames) > 1
  /\ frames[1].sec = "done"
  /\ \E caught \in BOOLEAN :
       LET callee == frames[1]
           throws == callee.comp.kind = "throw"
           result == callee.comp.v
           r2 == InvokeFunReturn(RT, BodySite, "f", result)
           r == IF throws THEN Res(RT, Undef, <<>>, Exc(result)) ELSE r2
           o == Track([open |-> open, bad |-> bad], r.events, 1)
           caller == frames[2]
       IN /\ ~throws => caught
          /\ frames' = Observed(<<IF throws THEN Arrive(caller, result, caught)
                                   ELSE caller>> \o Tail(Tail(frames)), r.events)
          /\ last' = [CallOf("invokeFun", BodySite, "f", <<result>>, Undef, r)
                        EXCEPT !.exit = callee.exitArgs]
          /\ open' = IF throws THEN Pop(o.open).rest ELSE o.open
          /\ bad' = o.bad
          /\ UNCHANGED <<returnStack, uncaughtException, switchLeft, switchStack, host,
               loaded, tvars>>

\* the script is left
Unload ==
  /\ Len(frames) = 1
  /\ frames[1].sec = "done"
  /\ frames' = <<>>
  /\ host' = IF frames[1].comp.kind = "throw" THEN Exc(frames[1].comp.v) ELSE NoExc
  /\ last' = NoCall
  /\ UNCHANGED <<returnStack, uncaughtException, switchLeft, switchStack, open, bad,
               loaded, tvars>>

NextRun ==
  \/ Load
  \/ Step
  \/ Evaluate
  \/ Binary
  \/ Unary
  \/ Update
  \/ ReturnStmt
  \/ ThrowStmt
  \/ EndBody
  \/ CallFunction
  \/ CallNative
  \/ CallMethod
  \/ Resume
  \/ Unload

-----------------------------------------------------------------------------
(* The emitted text as JavaScript reads it.  The chunks the walker wrote   *)
(* are split into tokens, and a statement is parsed with the precedence of *)
(* the language: assignment and conditional (right to left), then ||,      *)
(* then &&, then calls and parenthesised expressions.  A parsed node is    *)
(* [k, s, n, kids].                                                        *)

Punct(s) == Tok("punct", s, 0, <<>>)

\* the tokens of one chunk
Lex(t) ==
  IF t.k = "nl" THEN <<>>
  ELSE IF t.k # "txt" THEN <<t>>
  ELSE CASE t.s = ", " -> <<Punct(",")>>
         [] t.s = ");" -> <<Punct(")"), Punct(";")>>
         [] t.s = "], " -> <<Punct("]"), Punct(",")>>
         [] t.s = " = " -> <<Punct("=")>>
         [] t.s = " && " -> <<Punct("&&")>>
         [] t.s = " || " -> <<Punct("||")>>
         [] t.s = " ? " -> <<Punct("?")>>
         [] t.s = " : " -> <<Punct(":")>>
         [] t.s \in {"(", ")", "[", ";"} -> <<Punct(t.s)>>
         [] t.s \in {" ", ""} -> <<>>
         [] OTHER -> <<t>>

RECURSIVE LexAll(_, _, _)
LexAll(text, i, to) ==
  IF i > to THEN <<>> ELSE Lex(text[i]) \o LexAll(text, i + 1, to)

PNode(k, s, n, kids) == [k |-> k, s |-> s, n |-> n, kids |-> kids]

\* the result of a parsing step: a node and the position after it, or a
\* SyntaxError
Parsed(node, i) == [ok |-> TRUE, node |-> node, i |-> i]

SyntaxError == [ok |-> FALSE, node |-> PNode("error", "", 0, <<>>), i |-> 0]

Is(toks, i, s) == i <= Len(toks) /\ toks[i] = Punct(s)

Keywords == {"var", "let", "const"}

\* an identifier: the only assignment target of the emitted text
IsTarget(node) == node.k = "txt" /\ node.s \notin Keywords \cup {"0", "1", "2", "true", "false"}

\* One parsing step of rule `rule` at position i; acc is the left operand
\* read so far (rules "&& rest", "|| rest") or the expressions read so far
\* (rules "arguments", "elements").
RECURSIVE ParseRule(_, _, _, _)
ParseRule(rule, toks, i, acc) ==
  CASE rule \in {"arguments", "elements"} ->
         \* the expressions up to the closing bracket, separated by commas
         LET close == IF rule = "arguments" THEN ")" ELSE "]"
             e == ParseRule("assignment", toks, i, <<>>)
         IN IF Is(toks, i, close) THEN Parsed(PNode("list", "", 0, acc), i + 1)
            ELSE IF ~e.ok THEN SyntaxError
            ELSE IF Is(toks, e.i, ",") THEN ParseRule(rule, toks, e.i + 1, Append(acc, e.node))
            ELSE IF Is(toks, e.i, close)
            THEN Parsed(PNode("list", "", 0, Append(acc, e.node)), e.i + 1)
            ELSE SyntaxError
    [] rule = "primary" ->
         IF i > Len(toks) THEN SyntaxError
         ELSE IF toks[i].k = "hook"
         THEN IF ~Is(toks, i + 1, "(") THEN SyntaxError
              ELSE LET a == ParseRule("arguments", toks, i + 2, <<>>)
                   IN IF a.ok THEN Parsed(PNode("call", toks[i].s, 0, a.node.kids), a.i)
                      ELSE SyntaxError
         ELSE IF Is(toks, i, "(")
         THEN LET e == ParseRule("assignment", toks, i + 1, <<>>)
              IN IF e.ok /\ Is(toks, e.i, ")") THEN Parsed(e.node, e.i + 1) ELSE SyntaxError
         ELSE IF Is(toks, i, "[") THEN ParseRule("elements", toks, i + 1, <<>>)
         ELSE IF toks[i].k = "punct" \/ (toks[i].k = "txt" /\ toks[i].s \in Keywords)
         THEN SyntaxError
         ELSE Parsed(PNode(toks[i].k, toks[i].s, toks[i].n, <<>>), i + 1)
    [] rule = "&& rest" ->
         IF ~Is(toks, i, "&&") THEN Parsed(acc, i)
         ELSE LET r == ParseRule("primary", toks, i + 1, <<>>)
              IN IF r.ok
                 THEN ParseRule("&& rest", toks, r.i, PNode("log", "&&", 0, <<acc, r.node>>))
                 ELSE SyntaxError
    [] rule = "&&" ->
         LET l == ParseRule("primary", toks, i, <<>>)
         IN IF l.ok THEN ParseRule("&& rest", toks, l.i, l.node) ELSE SyntaxError
    [] rule = "|| rest" ->
         IF ~Is(toks, i, "||") THEN Parsed(acc, i)
         ELSE LET r == ParseRule("&&", toks, i + 1, <<>>)
              IN IF r.ok
                 THEN ParseRule("|| rest", toks, r.i, PNode("log", "||", 0, <<acc, r.node>>))
                 ELSE SyntaxError
    [] rule = "||" ->
         LET l == ParseRule("&&", toks, i, <<>>)
         IN IF l.ok THEN ParseRule("|| rest", toks, l.i, l.node) ELSE SyntaxError
    [] rule = "conditional" ->
         LET t == ParseRule("||", toks, i, <<>>)
         IN IF ~t.ok \/ ~Is(toks, t.i, "?") THEN t
            ELSE LET c == ParseRule("assignment", toks, t.i + 1, <<>>)
                 IN IF ~c.ok \/ ~Is(toks, c.i, ":") THEN SyntaxError
                    ELSE LET a == ParseRule("assignment", toks, c.i + 1, <<>>)
                         IN IF a.ok
                            THEN Parsed(PNode("cond", "", 0, <<t.node, c.node, a.node>>), a.i)
                            ELSE SyntaxError
    [] rule = "assignment" ->
         LET l == ParseRule("conditional", toks, i, <<>>)
         IN IF ~l.ok \/ ~Is(toks, l.i, "=") THEN l
            ELSE IF ~IsTarget(l.node) THEN SyntaxError
            ELSE LET r == ParseRule("assignment", toks, l.i + 1, <<>>)
                 IN IF r.ok THEN Parsed(PNode("asg", "=", 0, <<l.node, r.node>>), r.i)
                    ELSE SyntaxError

\* an assignment expression, the widest expression of the emitted text
ParseAssignment(toks, i) == ParseRule("assignment", toks, i, <<>>)

\* a statement on one line: a declaration with one declarator, or an
\* expression statement
ParseStatement(toks) ==
  IF Len(toks) > 3 /\ toks[1].k = "txt" /\ toks[1].s \in Keywords /\ Is(toks, 3, "=")
  THEN LET init == ParseAssignment(toks, 4)
       IN IF init.ok /\ Is(toks, init.i, ";") /\ init.i = Len(toks)
          THEN Parsed(PNode("declaration", toks[1].s, 0,
                            <<PNode("txt", toks[2].s, 0, <<>>), init.node>>), init.i + 1)
          ELSE SyntaxError
  ELSE LET e == ParseAssignment(toks, 1)
       IN IF e.ok /\ Is(toks, e.i, ";") /\ e.i = Len(toks) THEN Parsed(e.node, e.i + 1)
          ELSE SyntaxError

\* the lines of the try block of the script, as positions of their NL tokens
TryLines(text) ==
  LET t == LineOf(text, 0, "try {")
      c == LineOf(text, 0, "} catch (")
  IN {i \in (t + 1)..(c - 1) : text[i] = NL(1)}

\* the statement on the line starting at position i
StatementAt(text, i) ==
  LET to == CHOOSE j \in (i + 1)..Len(text) :
              text[j].k = "nl" /\ \A m \in (i + 1)..(j - 1) : text[m].k # "nl"
  IN ParseStatement(LexAll(text, i + 1, to - 1))

\* the last statement of the try block of the script
LastStatement(text) ==
  LET lines == TryLines(text)
  IN StatementAt(text, CHOOSE i \in lines : \A j \in lines : j <= i)

PassThrough == {"E", "W", "C", "R", "L", "O", "Th", "Re", "Swl"}

\* the expression without the hook calls around its parts
RECURSIVE Erase(_)
Erase(p) ==
  IF p.k = "call" /\ p.s \in PassThrough /\ Len(p.kids) > 0
  THEN Erase(p.kids[Len(p.kids)])
  ELSE IF p.k = "call" /\ p.s = "B" /\ Len(p.kids) = 4
  THEN PNode("bin", p.kids[2].s, 0, <<Erase(p.kids[3]), Erase(p.kids[4])>>)
  ELSE PNode(p.k, p.s, 0, [j \in 1..Len(p.kids) |-> Erase(p.kids[j])])

\* the expression of the program as acorn parsed it
RECURSIVE Skeleton(_)
Skeleton(node) ==
  CASE node.type = "Identifier" -> PNode("txt", node.name, 0, <<>>)
    [] node.type = "Literal" -> PNode("txt", node.raw, 0, <<>>)
    [] node.type = "LogicalExpression" ->
         PNode("log", node.operator, 0, <<Skeleton(node.left), Skeleton(node.right)>>)
    [] node.type = "ConditionalExpression" ->
         PNode("cond", "", 0, <<Skeleton(node.test), Skeleton(node.consequent),
                                Skeleton(node.alternate)>>)
    [] node.type = "AssignmentExpression" ->
         PNode("asg", node.operator, 0, <<Skeleton(node.left), Skeleton(node.right)>>)
    [] node.type = "BinaryExpression" ->
         PNode("bin", node.operator, 0, <<Skeleton(node.left), Skeleton(node.right)>>)
    [] OTHER -> PNode("other", node.type, 0, <<>>)

-----------------------------------------------------------------------------
(* The host at work (index.ts): the handler analyze() installs for `.js`   *)
(* files instruments the file and compiles the text instrument() returned. *)
(* The script is run statement by statement; s is the state of the run:    *)
(* [rt, env, events, thrown, v], env being the variables of the script and *)
(* of the host by name, v the value of the last expression.  The callbacks *)
(* of the analysis return undefined.                                       *)

LiteralValue(s) ==
  CASE s = "0" -> Num(0)
    [] s = "1" -> Num(1)
    [] s = "2" -> Num(2)
    [] s = "true" -> Bool(TRUE)
    [] s = "false" -> Bool(FALSE)

\* the call of hook p.s with the values of its arguments
Apply(p, vals, rt) ==
  LET id == p.kids[1].n
  IN CASE p.s = "Se" -> Se(rt, id)
       [] p.s = "D" -> D(rt, id, p.kids[2].s, p.kids[3].s, SubSeq(vals, 4, Len(vals)))
       [] p.s = "R" -> R(rt, id, p.kids[2].s, vals[3], Undef)
       [] p.s = "W" -> W(rt, id, [j \in 1..Len(p.kids[2].kids) |-> p.kids[2].kids[j].s],
                         vals[3], Undef)
       [] p.s = "L" -> L(rt, id, vals[2], Undef)
       [] p.s = "E" -> E(rt, id, vals[2], Undef)
       [] p.s = "B" -> B(rt, id, p.kids[2].s, vals[3], vals[4])
       [] p.s = "C" -> C(rt, id, p.kids[2].s, vals[3], Undef)

Bind(env, name, v) ==
  [n \in DOMAIN env \cup {name} |-> IF n = name THEN v ELSE env[n]]

RECURSIVE Eval(_, _)
RECURSIVE EvalArgs(_, _, _, _)

\* the arguments of a call, left to right, up to the first that throws
EvalArgs(kids, i, s, vals) ==
  IF i > Len(kids) THEN [s |-> s, vals |-> vals]
  ELSE LET a == Eval(kids[i], s)
       IN IF a.thrown.set THEN [s |-> a, vals |-> vals]
          ELSE EvalArgs(kids, i + 1, a, Append(vals, a.v))

Eval(p, s) ==
  CASE p.k = "txt" ->
         IF p.s \in DOMAIN s.env THEN [s EXCEPT !.v = s.env[p.s]]
         ELSE [s EXCEPT !.v = LiteralValue(p.s)]
    [] p.k = "id" -> [s EXCEPT !.v = Num(p.n)]
    [] p.k \in {"str", "kind", "list"} -> [s EXCEPT !.v = StrV]
    [] p.k = "log" ->
         LET l == Eval(p.kids[1], s)
         IN IF l.thrown.set \/ (p.s = "&&") # Truthy(l.v) THEN l ELSE Eval(p.kids[2], l)
    [] p.k = "cond" ->
         LET t == Eval(p.kids[1], s)
         IN IF t.thrown.set THEN t
            ELSE IF Truthy(t.v) THEN Eval(p.kids[2], t) ELSE Eval(p.kids[3], t)
    [] p.k \in {"asg", "declaration"} ->
         LET r == Eval(p.kids[2], s)
         IN IF r.thrown.set THEN r ELSE [r EXCEPT !.env = Bind(r.env, p.kids[1].s, r.v)]
    [] p.k = "call" ->
         LET a == EvalArgs(p.kids, 1, s, <<>>)
         IN IF a.s.thrown.set THEN a.s
            ELSE LET r == Apply(p, a.vals, a.s.rt)
                 IN [a.s EXCEPT !.rt = r.rt, !.events = @ \o r.events,
                                !.thrown = r.thrown, !.v = r.ret]

\* the statements from the n-th on, up to the first that throws
RECURSIVE EvalStatements(_, _, _)
EvalStatements(stmts, n, s) ==
  IF n > Len(stmts) \/ s.thrown.set THEN s
  ELSE EvalStatements(stmts, n + 1, Eval(stmts[n].node, s))

\* module._compile(text): the statements of the try block, X in the catch
\* block when one of them throws, Sx in the finally block.  globals are the
\* variables of the host; the variables the script declares with var exist
\* from the start, with the value undefined.  A text that does not parse
\* throws a SyntaxError before any of it is run.
Compile(text, globals, rt) ==
  LET lines == TryLines(text)
      stmts == [n \in 1..Cardinality(lines) |->
                  StatementAt(text, CHOOSE i \in lines :
                                      Cardinality({j \in lines : j < i}) = n - 1)]
      hoisted == {stmts[n].node.kids[1].s : n \in {m \in 1..Len(stmts) :
                    stmts[m].node.k = "declaration" /\ stmts[m].node.s = "var"}}
      env == [n \in DOMAIN globals \cup hoisted |->
                IF n \in hoisted THEN Undef ELSE globals[n]]
      scaffold == Scaffold(text, 0)
      body == EvalStatements(stmts, 1, [rt |-> rt, env |-> env, events |-> <<>>,
                                        thrown |-> NoExc, v |-> Undef])
      x == X(body.rt, scaffold.catch[1].id, body.thrown.exception)
      caught == IF body.thrown.set THEN x.rt ELSE body.rt
      sx == Sx(caught, scaffold.finally[1].id, [throws |-> FALSE, v |-> Undef])
  IN IF \E n \in 1..Len(stmts) : ~stmts[n].ok
     THEN [rt |-> rt, env |-> globals, events |-> <<>>, thrown |-> Exc(ErrV), v |-> Undef]
     ELSE [body EXCEPT !.rt = sx.rt, !.events = @ \o sx.events, !.thrown = sx.thrown]

\* the programs whose emitted text is made of one-line statements
ScriptKinds == {1, 2, 4, 17, 18, 19}

\* the values of the host's variables x and y
HostValues == {Undef, Num(0), Num(1)}

\* the `.js` handler on a file holding program k: r is the result of
\* instrument(), c the run of the text it returned
Handle(text, globals, r, c) ==
  /\ numId' = r.numId
  /\ idToLoc' = r.idToLoc
  /\ code' = text
  /\ output' = r.output
  /\ threw' = r.threw
  /\ allocs' = r.allocs
  /\ calls' = calls + 1
  /\ rerun' = FALSE
  /\ wrote' = ~r.threw
  /\ returnStack' = c.rt.returnStack
  /\ uncaughtException' = c.rt.uncaughtException
  /\ switchLeft' = c.rt.switchLeft
  /\ switchStack' = c.rt.switchStack
  /\ last' = [hook |-> "compile", id |-> 0, op |-> "", args |-> <<globals.x, globals.y>>,
              cb |-> Undef, ret |-> c.v, threw |-> c.thrown.set, events |-> c.events,
              exit |-> <<>>, recv |-> <<>>]
  /\ host' = c.thrown
  /\ UNCHANGED <<frames, open, bad, loaded>>

Analyze ==
  /\ calls < MaxCalls
  /\ frames = <<>>
  /\ \E k \in ScriptKinds, x \in HostValues, y \in {Num(0), Num(1)} :
       \E r \in {Instrument(SourceText(k, "none"), numId, idToLoc)} :
         \E c \in {Compile(r.output, [x |-> x, y |-> y], RT)} :
           Handle(SourceText(k, "none"), [x |-> x, y |-> y], r, c)

-----------------------------------------------------------------------------
(* The specifications: the transformer at work, and the runtime at work    *)

Init == TInit /\ RInit

Next == InstrumentSource \/ InstrumentOutput

Spec == Init /\ [][Next]_vars

SpecRun == Init /\ [][NextRun]_vars

\* the runs of programs made of calls of instrumented functions, return and
\* throw statements, and try statements: a try statement with a catch clause
\* of its own, a return that a finally block abandons
NextFlow ==
  \/ Load
  \/ Step
  \/ ReturnStmt
  \/ AbandonedReturn
  \/ ThrowStmt
  \/ TryCatch
  \/ EndBody
  \/ CallFunction
  \/ Resume
  \/ Unload

SpecFlow == Init /\ [][NextFlow]_vars

\* the host analysing files one after the other
NextHost == Analyze

SpecHost == Init /\ [][NextHost]_vars

\* the runs of programs made of calls of instrumented functions and switch
\* statements
NextSwitch ==
  \/ Load
  \/ Step
  \/ Switch
  \/ EndBody
  \/ CallFunction
  \/ Resume
  \/ Unload

SpecSwitch == Init /\ [][NextSwitch]_vars

\* switch statements whose case tests call functions that run switch
\* statements of their own
NextNested ==
  \/ Load
  \/ Step
  \/ SwitchLeft
  \/ SwitchRight
  \/ ThrowStmt
  \/ EndBody
  \/ CallFunction
  \/ Resume
  \/ Unload

SpecNested == Init /\ [][NextNested]_vars

\* the transformer run on the programs of the second pool
NextRegion == InstrumentRegion

SpecRegion == Init /\ [][NextRegion]_vars

-----------------------------------------------------------------------------
(* Properties of the transformer                                           *)

\* the last call returned the instrumented text of a source file
Walked == calls > 0 /\ ~threw /\ ~rerun /\ IndexOf(code, MarkerT) = -1

\* the positions of the ids printed into the text returned
IdPositions == {i \in 1..Len(output) : output[i].k = "id"}

\* position i is the first argument of a hook call
FirstArgument(i) == i > 2 /\ output[i - 1] = Txt("(") /\ output[i - 2].k = "hook"

\* position i is the second argument, binaryId, of an Up call
BinaryIdOfUp(i) ==
  /\ i > 4
  /\ output[i - 1] = Txt(", ")
  /\ output[i - 2].k = "id"
  /\ output[i - 3] = Txt("(")
  /\ output[i - 4] = Hook("Up")

AllocatedOnce(id) == Cardinality({a \in 1..Len(allocs) : allocs[a].id = id}) = 1

PrintedOnce(id) == Cardinality({i \in IdPositions : output[i].n = id}) = 1

\* C1 as claimed: every id in the emitted text was returned by exactly one
\* newId call and is printed exactly once, as the first argument of a hook call.
C1_IdFirstArgument ==
  Walked => \A i \in IdPositions :
              /\ AllocatedOnce(output[i].n)
              /\ PrintedOnce(output[i].n)
              /\ FirstArgument(i)

\* C1 amended: every id in the emitted text was returned by exactly one
\* newId call and is printed exactly once, as the first argument of a hook
\* call or as the second argument (binaryId) of an Up call.
C1_IdUniqueness ==
  Walked => \A i \in IdPositions :
              /\ AllocatedOnce(output[i].n)
              /\ PrintedOnce(output[i].n)
              /\ FirstArgument(i) \/ BinaryIdOfUp(i)

\* an update expression has been instrumented
C1_Witness == Walked /\ \E i \in IdPositions : BinaryIdOfUp(i)

\* C2 as claimed: every instrument() call starts from id 0 and an empty
\* table, so what it returns is what it returns as the only call of a process.
C2_PerFileReset ==
  calls > 0 =>
    /\ allocs # <<>> => allocs[1].id = 0
    /\ threw = Instrument(code, 0, <<>>).threw
    /\ output = Instrument(code, 0, <<>>).output

\* the members of the table published in the preamble of the text returned
Published ==
  {output[i] : i \in {j \in 1..IndexOf(output, Txt("}")) : output[j].k = "entry"}}

\* C3: the published table has a member for an allocated id iff its node
\* had a loc, that member is [start.line, start.column + 1, end.line,
\* end.column + 1], and no id printed in the text lacks its member.
C3_LocationCompleteness ==
  (calls > 0 /\ ~threw) =>
    /\ \A a \in 1..Len(allocs) :
         LET loc == allocs[a].loc
             members == {e \in Published : e.n = allocs[a].id}
         IN /\ (loc # <<>>) <=> (members # {})
            /\ \A e \in members : e.a = <<loc[1], loc[2] + 1, loc[3], loc[4] + 1>>
    /\ \A i \in IdPositions : \E e \in Published : e.n = output[i].n

\* a file with located nodes has been instrumented after another file
C3_Witness == Walked /\ calls = 2 /\ Len(allocs) > 4 /\ allocs[1].id > 0

\* C4 as claimed: instrument() of its own output returns that output.
C4_Idempotent == (calls > 0 /\ rerun /\ ~threw) => output = code

\* the text from position i on
Rest(text, i) == SubSeq(text, i, Len(text))

KindOfKeyword(kw) == IF kw = "let" THEN "Let" ELSE "Const"

\* position i starts a declare call without a value for name x of kind kind
DeclareWithoutValue(i, x, kind) ==
  /\ i + 7 <= Len(output)
  /\ output[i] = Hook("D")
  /\ output[i + 2].k = "id"
  /\ output[i + 4] = Str(x)
  /\ output[i + 6] = KindT(kind)
  /\ output[i + 7] = Txt(");")

\* C10 as claimed: every let/const declaration of the emitted code is
\* preceded by a declare call without a value for the name it binds.
C10_LexicalDeclares ==
  Walked =>
    \A j \in 1..(Len(output) - 2) :
      (output[j] \in {Txt("let"), Txt("const")} /\ output[j + 1] = Txt(" ")) =>
        \E i \in 1..(j - 1) :
          DeclareWithoutValue(i, output[j + 2].s, KindOfKeyword(output[j].s))

\* the children of an AST node, in source order
Kids(node) ==
  CASE node.type \in {"Program", "BlockStatement"} -> node.body
    [] node.type = "ExpressionStatement" -> <<node.expression>>
    [] node.type = "VariableDeclaration" -> node.declarations
    [] node.type = "VariableDeclarator" -> <<node.id, node.init>>
    [] node.type = "IfStatement" -> <<node.test, node.consequent, node.alternate>>
    [] node.type = "ForStatement" -> <<node.init, node.test, node.update, node.body>>
    [] node.type \in {"ForInStatement", "ForOfStatement"} ->
         <<node.left, node.right, node.body>>
    [] node.type = "SwitchStatement" -> <<node.discriminant>> \o node.cases
    [] node.type = "SwitchCase" -> <<node.test>> \o node.consequent
    [] node.type \in {"FunctionDeclaration", "FunctionExpression",
                      "ArrowFunctionExpression"} ->
         node.params \o <<node.body>>
    [] node.type \in {"ReturnStatement", "ThrowStatement", "UnaryExpression",
                      "UpdateExpression", "SpreadElement"} -> <<node.argument>>
    [] node.type = "TryStatement" -> <<node.block, node.handler, node.finalizer>>
    [] node.type = "CatchClause" -> <<node.param, node.body>>
    [] node.type \in {"BinaryExpression", "LogicalExpression", "AssignmentExpression"} ->
         <<node.left, node.right>>
    [] node.type = "ConditionalExpression" ->
         <<node.test, node.consequent, node.alternate>>
    [] node.type = "MemberExpression" -> <<node.object, node.property>>
    [] node.type \in {"CallExpression", "NewExpression"} ->
         <<node.callee>> \o node.arguments
    [] OTHER -> <<>>

\* the node kinds whose visitor is a todo() call
UnimplementedKinds ==
  {"WithStatement", "Super", "SpreadElement", "ArrowFunctionExpression", "YieldExpression",
   "TemplateLiteral", "TaggedTemplateExpression", "TemplateElement", "ClassBody",
   "MethodDefinition", "ClassDeclaration", "ClassExpression", "MetaProperty",
   "ImportDeclaration", "ImportSpecifier", "ImportDefaultSpecifier",
   "ImportNamespaceSpecifier", "ImportAttribute", "ExportNamedDeclaration",
   "ExportSpecifier", "ExportDefaultDeclaration", "ExportAllDeclaration",
   "AwaitExpression", "ChainExpression", "ImportExpression", "PropertyDefinition",
   "PrivateIdentifier", "StaticBlock"}

\* node is of the syntactic form named by form
IsForm(node, form) ==
  CASE form = "unsupported" ->
         \/ node.type \in UnimplementedKinds
         \/ node.type = "AssignmentExpression" /\ node.operator # "="
    [] form = "method call" ->
         node.type = "CallExpression" /\ node.callee.type = "MemberExpression"
    [] form = "new" -> node.type = "NewExpression"
    [] form = "delete" ->
         /\ node.type = "UnaryExpression"
         /\ node.operator = "delete"
         /\ node.argument.type = "MemberExpression"
    [] form = "lexical for" ->
         /\ node.type = "ForStatement"
         /\ node.init.type = "VariableDeclaration"
         /\ node.init.kind \in {"let", "const"}
    [] form = "short circuit" ->
         node.type \in {"LogicalExpression", "ConditionalExpression"}

\* the tree rooted at node holds a node of the form
RECURSIVE HasForm(_, _)
HasForm(node, form) ==
  \/ IsForm(node, form)
  \/ \E i \in 1..Len(Kids(node)) : HasForm(Kids(node)[i], form)

\* the last call was given a source file without the marker
Source == calls > 0 /\ ~rerun /\ IndexOf(code, MarkerT) = -1

\* C15 as claimed: a `for` statement with a let/const header is emitted as
\* `{ D(...); for (init; test; update) { D(...); body } }`: a declare call
\* without a value for the header's name right before the loop, and one more as
\* the first statement inside the braces of the loop.
C15_LexicalForHeader ==
  Walked =>
    \A j \in 1..(Len(output) - 3) :
      (output[j] = Txt("for (") /\ output[j + 1] \in {Txt("let"), Txt("const")}) =>
        LET x == output[j + 3].s
            kind == KindOfKeyword(output[j + 1].s)
            h == CHOOSE i \in (j + 1)..Len(output) :
                   output[i] = Txt(") ") /\ \A n \in (j + 1)..(i - 1) : output[n] # Txt(") ")
        IN /\ j > 11
           /\ output[j - 11] = Txt("{")
           /\ DeclareWithoutValue(j - 9, x, kind)
           /\ output[h + 1] = Txt("{")
           /\ output[h + 2].k = "nl"
           /\ DeclareWithoutValue(h + 3, x, kind)

\* C16: when the file holds a node of an unimplemented kind or an assignment
\* with a compound operator, instrument() throws, no text is returned and
\* instrumentFile() writes no file.
C16_FailFast ==
  (Source /\ HasForm(Parse(code), "unsupported")) =>
    threw /\ output = <<>> /\ ~wrote

\* a call with a spread argument was rejected after another file had been
\* instrumented and written
C16_Witness ==
  /\ Source
  /\ calls = 2
  /\ HasForm(Parse(code), "unsupported")
  /\ Parse(code).body[1].type = "ExpressionStatement"
  /\ Parse(code).body[1].expression.type = "CallExpression"
  /\ threw
  /\ ~wrote
  /\ numId > 5

\* the text returned holds a call of hook h
Emits(h) == \E i \in 1..Len(output) : output[i] = Hook(h)

\* C20 as claimed: a call with a member callee is emitted through M, a `new`
\* expression through a wrapper with the constructor flag set, and `delete`
\* of a member expression through De.
C20_MemberCallNewDelete ==
  Source =>
    /\ HasForm(Parse(code), "method call") => ~threw /\ Emits("M")
    /\ HasForm(Parse(code), "new") =>
         /\ ~threw
         /\ \E i \in 1..(Len(output) - 1) :
              output[i] = Txt(", ") /\ output[i + 1] = Txt("true")
    /\ HasForm(Parse(code), "delete") => ~threw /\ Emits("De")

\* the positions of the declare calls printed into the text returned
DeclarePositions == {i \in 1..Len(output) : output[i] = Hook("D")}

\* C11: a declare call is printed without a value argument iff the kind is Let
\* or Const, every other kind gets the name itself as the value argument, and
\* the D hook reports init = TRUE exactly for the calls that pass a value,
\* whatever that value is.
C11_TDZPolicy ==
  Walked =>
    \A i \in DeclarePositions :
      LET id == output[i + 2].n
          name == output[i + 4].s
          kind == output[i + 6].s
          hasValue == output[i + 7] = Txt(", ")
      IN /\ output[i + 6].k = "kind"
         /\ hasValue <=> kind \notin {"Let", "Const"}
         /\ kind \in {"Let", "Const", "Var", "Func", "Param", "CatchParam", "Arguments"}
         /\ IF hasValue
            THEN output[i + 8] = Txt(name) /\ output[i + 9] = Txt(");")
            ELSE output[i + 7] = Txt(");")
         /\ \A v \in {Undef, Num(0), Num(1)} :
              D(RT, id, name, kind, IF hasValue THEN <<v>> ELSE <<>>).events
                = <<Ev("declare", id, name,
                       <<Bool(hasValue), IF hasValue THEN v ELSE Undef>>, NoExc)>>

\* a catch parameter has been declared with its value, in a second file
C11_Witness ==
  /\ Walked
  /\ calls = 2
  /\ \E i \in DeclarePositions :
       output[i + 6] = KindT("CatchParam") /\ output[i + 7] = Txt(", ")

-----------------------------------------------------------------------------
(* Properties of the runtime                                               *)

PassThroughHooks == {"E", "R", "W", "L", "C", "Th", "Re", "O"}

\* C6: each of the hooks E, R, W, L, C, Th, Re and O returns exactly the value
\* it was given, whatever the analysis callback returned.
C6_ValuePreservation ==
  last.hook \in PassThroughHooks => ~last.threw /\ last.ret = last.args[1]

\* a hook handed on the truthy value it got although the callback returned
\* another value
C6_Witness ==
  /\ last.hook = "W"
  /\ last.args = <<Num(1)>>
  /\ last.cb = Num(0)
  /\ last.ret = Num(1)

\* what JavaScript computes for the operators of the model
BinaryResult(op, a, b) ==
  CASE op = "+" -> Num(a.v + b.v)
    [] op = "-" -> Num(a.v - b.v)
    [] op = "===" -> Bool(a.t = b.t /\ a.v = b.v)
    [] op = "<" -> Bool(a.v < b.v)

UnaryResult(op, a) ==
  CASE op = "-" -> Num(0 - a.v)
    [] op = "!" -> Bool(a = Undef \/ a.v = 0)
    [] op = "void" -> Undef

\* the last call of pre/post hook h fired pre, then post with the result it
\* returned; or it threw and fired pre alone
PrePost(h, pre, post, known, result) ==
  last.hook = h =>
    IF known
    THEN /\ ~last.threw
         /\ last.ret = result
         /\ last.events = <<Ev(pre, last.id, last.op, last.args, NoExc),
                            Ev(post, last.id, last.op, last.args \o <<result>>, NoExc)>>
    ELSE /\ last.threw
         /\ last.events = <<Ev(pre, last.id, last.op, last.args, NoExc)>>

\* C7: B fires binaryPre, computes, fires binaryPost with the result and returns
\* it; U does the same with unaryPre and unaryPost; invokeFunPre fires before
\* the callee is entered and invokeFun after it returned, and no invokeFun
\* fires without the invokeFunPre of the same id being open.
C7_PrePostOrdering ==
  /\ ~bad
  /\ PrePost("B", "binaryPre", "binaryPost", last.op \in {"+", "-", "===", "<"},
             BinaryResult(last.op, last.args[1], last.args[2]))
  /\ PrePost("U", "unaryPre", "unaryPost", last.op \in {"-", "!", "void"},
             UnaryResult(last.op, last.args[1]))
  /\ (last.hook = "invokeFun" /\ ~last.threw) =>
       /\ Len(last.events) > 0
       /\ last.events[Len(last.events)] =
            Ev("invokeFun", last.id, last.op, <<last.ret>>, NoExc)
  /\ (last.hook = "invokeFun" /\ last.threw) =>
       \A i \in 1..Len(last.events) : last.events[i].cb # "invokeFun"

\* an instrumented callee returned 1 and invokeFun fired with it, back in a
\* function that was itself called through a wrapper
C7_Witness ==
  /\ last.hook = "invokeFun"
  /\ last.op = "f"
  /\ ~last.threw
  /\ last.ret = Num(1)
  /\ Len(frames) = 2
  /\ Len(open) = 3

\* C8: for every invocation of an instrumented function Fe fires before any
\* other event of the invocation and Fx fires exactly once, after every other
\* event of it, however the function is left.
C8_FunctionBracket ==
  \A j \in 1..Len(frames) :
    frames[j].kind = "func" =>
      /\ ~frames[j].early
      /\ ~frames[j].late
      /\ frames[j].sec = "done" => frames[j].entered /\ frames[j].exits = 1
      /\ frames[j].sec # "done" => frames[j].exits = 0

\* a function was left by an exception, and Fx fired once
C8_Witness ==
  /\ Len(frames) > 1
  /\ frames[1].kind = "func"
  /\ frames[1].sec = "done"
  /\ frames[1].raised.set
  /\ frames[1].comp.kind = "throw"
  /\ frames[1].exits = 1

Active == {j \in 1..Len(frames) :
             frames[j].kind = "func" /\ frames[j].entered /\ frames[j].exits = 0}

\* functionExit is given the value of the last Re call of the invocation
ExitGetsLastRe ==
  \A j \in 1..Len(frames) :
    (frames[j].kind = "func" /\ frames[j].exits > 0) =>
      frames[j].exitArgs = <<frames[j].lastRe>>

\* the depth of the return stack is the number of active invocations
StackDepth == Len(returnStack) = Cardinality(Active)

\* C13 as claimed: functionExit is given the value of the last Re call of the
\* invocation (undefined if there was none), the invokeFun callback of the
\* call site is given that same value as the result, and the depth of the
\* return stack is the number of instrumented invocations that are active.
C13_ReturnCapture ==
  /\ ExitGetsLastRe
  /\ (last.hook = "invokeFun" /\ last.op = "f" /\ ~last.threw) =>
       last.exit = <<last.ret>>
  /\ StackDepth

\* C14 as claimed: when an exception thrown in an activation was caught by a
\* try statement of the program and none reached the scaffold, X is not called
\* in the activation (raised stays unset), the exit callback is given no
\* exception and the exit hook does not throw, the exit callback of the
\* activation returning.
C14_CaughtNotReported ==
  \A j \in 1..Len(frames) :
    (/\ frames[j].handled
     /\ ~frames[j].raised.set
     /\ frames[j].sec = "done"
     /\ ~frames[j].exitThrew) =>
      /\ frames[j].exitExc = NoExc
      /\ frames[j].comp.kind # "throw"

\* C18 as claimed: the text emitted for an expression statement with logical
\* or conditional expressions in it, also as right operands and branches, is
\* an expression that groups the operands as the original does.
C18_ShortCircuitGrouping ==
  (/\ Source
   /\ Len(Parse(code).body) = 1
   /\ Parse(code).body[1].type = "ExpressionStatement"
   /\ HasForm(Parse(code), "short circuit")) =>
    /\ ~threw
    /\ LET p == LastStatement(output)
       IN p.ok /\ Erase(p.node) = Skeleton(Parse(code).body[1].expression)

\* the clause `switch (d) { case tests[1]: ... }` enters: the first whose test
\* is === d, 0 if there is none
Selected(d, tests) ==
  IF \E i \in 1..Len(tests) : tests[i] = d
  THEN CHOOSE i \in 1..Len(tests) : tests[i] = d /\ \A j \in 1..(i - 1) : tests[j] # d
  ELSE 0

\* C17 as claimed: the instrumented switch statement enters the clause the
\* original one enters, for every discriminant and every list of case tests.
C17_SwitchPassthrough ==
  last.hook = "Swl" =>
    last.ret = Num(Selected(last.args[1], Tail(last.args)))

\* C19 as claimed: the wrapper M returns, called with arguments a1..an, calls
\* base[prop] with `this` = base and exactly the arguments a1..an, reports
\* isMethod = true to invokeFunPre and invokeFun, and returns the callee's
\* result.
C19_MethodWrapper ==
  last.hook = "M" =>
    /\ ~last.threw
    /\ last.recv = last.args
    /\ \A i \in 1..Len(last.events) :
         last.events[i].cb \in {"invokeFunPre", "invokeFun"} =>
           last.events[i].op = "method"
    /\ last.ret = last.cb

\* the positions of the events of callback cb
EventsOf(events, cb) == {i \in DOMAIN events : events[i].cb = cb}

\* the host has just run the text emitted for `var x = 1 + y;`
RanDeclaration ==
  /\ last.hook = "compile"
  /\ code = SourceText(2, "none")

\* C12 as claimed: a top-level `var x = a op b;` is observed in the order
\* scriptEnter, declare(x, Var, undefined), the events of the left operand,
\* the events of the right operand, binaryPre, binaryPost, write([x], result),
\* scriptExit: scriptEnter is the first event and scriptExit the last, each
\* of the others happens once, the operands are the values of a and b and
\* the value written is the result of the operation.  (endExpression, which
\* the claim does not list, falls between binaryPost and write.)
C12_EvaluationOrder ==
  RanDeclaration =>
    LET ev == last.events
        one(cb) == CHOOSE i \in EventsOf(ev, cb) : TRUE
        y == last.args[2]
    IN /\ ~last.threw
       /\ \A cb \in {"scriptEnter", "declare", "literal", "read", "binaryPre",
                      "binaryPost", "write", "scriptExit"} : Cardinality(EventsOf(ev, cb)) = 1
       /\ one("scriptEnter") = 1
       /\ one("scriptExit") = Len(ev)
       /\ one("scriptEnter") < one("declare")
       /\ one("declare") < one("literal")
       /\ one("literal") < one("read")
       /\ one("read") < one("binaryPre")
       /\ one("binaryPre") + 1 = one("binaryPost")
       /\ one("binaryPost") < one("write")
       /\ one("write") < one("scriptExit")
       /\ ev[one("declare")].op = "x"
       /\ ev[one("declare")].args = <<Bool(TRUE), Undef>>
       /\ ev[one("literal")].args = <<Num(1)>>
       /\ ev[one("read")].op = "y" /\ ev[one("read")].args = <<y>>
       /\ ev[one("binaryPre")].args = <<Num(1), y>>
       /\ ev[one("binaryPost")].args = <<Num(1), y, BINARY_OPS("+", Num(1), y)>>
       /\ ev[one("write")].op = <<"x">>
       /\ ev[one("write")].args = <<BINARY_OPS("+", Num(1), y)>>

C12_Witness ==
  /\ RanDeclaration
  /\ last.args[2] = Num(1)
  /\ \E i \in EventsOf(last.events, "write") : last.events[i].args = <<Num(2)>>

-----------------------------------------------------------------------------
(* Properties of the walk: flags, scopes and positions                     *)

\* The walk instrument() made of the program in `code`, seen from an empty
\* registry: flags, scopes and the tokens other than ids do not depend on
\* the registry.
TheWalk == Walk(NewState(0, <<>>), Parse(code))

\* a program of the second pool has just been instrumented
RanRegion == Walked /\ code[1].n \in RegionKinds

\* The Identifier nodes under a node with the position each is in:
\*   "read"     its value is used
\*   "binding"  a parameter, a declarator without initializer, a catch parameter
\*   "target"   the left side of an assignment, of a declarator with an
\*              initializer or of a for-in/of head
\*   "name"     the name of a function or of a property
RECURSIVE Identifiers(_, _)
IdentifiersOf(nodes, pos) ==
  UNION {Identifiers(nodes[i], pos) : i \in 1..Len(nodes)}

Identifiers(node, pos) ==
  CASE node.type = "Identifier" -> {[node |-> node, pos |-> pos]}
    [] node.type \in {"Program", "BlockStatement"} -> IdentifiersOf(node.body, "read")
    [] node.type = "ExpressionStatement" -> Identifiers(node.expression, "read")
    [] node.type = "VariableDeclaration" -> IdentifiersOf(node.declarations, pos)
    [] node.type = "VariableDeclarator" ->
         IF node.init.type = "null"
         THEN Identifiers(node.id, IF pos = "target" THEN pos ELSE "binding")
         ELSE Identifiers(node.id, "target") \cup Identifiers(node.init, "read")
    [] node.type \in {"FunctionDeclaration", "FunctionExpression"} ->
         Identifiers(node.id, "name") \cup IdentifiersOf(node.params, "binding")
           \cup Identifiers(node.body, "read")
    [] node.type \in {"ReturnStatement", "ThrowStatement", "UnaryExpression",
                      "UpdateExpression"} -> Identifiers(node.argument, "read")
    [] node.type = "IfStatement" ->
         Identifiers(node.test, "read") \cup Identifiers(node.consequent, "read")
           \cup Identifiers(node.alternate, "read")
    [] node.type = "ConditionalExpression" ->
         Identifiers(node.test, "read") \cup Identifiers(node.consequent, "read")
           \cup Identifiers(node.alternate, "read")
    [] node.type = "ForStatement" ->
         Identifiers(node.init, "read") \cup Identifiers(node.test, "read")
           \cup Identifiers(node.update, "read") \cup Identifiers(node.body, "read")
    [] node.type \in {"ForInStatement", "ForOfStatement"} ->
         Identifiers(node.left, "target") \cup Identifiers(node.right, "read")
           \cup Identifiers(node.body, "read")
    [] node.type = "SwitchStatement" ->
         Identifiers(node.discriminant, "read") \cup IdentifiersOf(node.cases, "read")
    [] node.type = "SwitchCase" ->
         Identifiers(node.test, "read") \cup IdentifiersOf(node.consequent, "read")
    [] node.type = "TryStatement" ->
         Identifiers(node.block, "read") \cup Identifiers(node.handler, "read")
           \cup Identifiers(node.finalizer, "read")
    [] node.type = "CatchClause" ->
         Identifiers(node.param, "binding") \cup Identifiers(node.body, "read")
    [] node.type \in {"BinaryExpression", "LogicalExpression"} ->
         Identifiers(node.left, "read") \cup Identifiers(node.right, "read")
    [] node.type = "AssignmentExpression" ->
         Identifiers(node.left, "target") \cup Identifiers(node.right, "read")
    [] node.type = "MemberExpression" ->
         Identifiers(node.object, "read")
           \cup Identifiers(node.property, IF node.computed THEN "read" ELSE "name")
    [] node.type \in {"CallExpression", "NewExpression"} ->
         Identifiers(node.callee, "read") \cup IdentifiersOf(node.arguments, "read")
    [] OTHER -> {}

\* the text R(id, "name", name) stands at position i of out
ReadCallAt(out, i, name) ==
  /\ i + 7 <= Len(out)
  /\ out[i] = Hook("R") /\ out[i + 1] = Txt("(") /\ out[i + 2].k = "id"
  /\ SubSeq(out, i + 3, i + 7) = <<Txt(", "), Str(name), Txt(", "), Txt(name), Txt(")")>>

\* the parameter lists and catch parameters of the program, each as the
\* list withLHS is called on
RECURSIVE BindingLists(_)
BindingListsOf(nodes) == UNION {BindingLists(nodes[i]) : i \in 1..Len(nodes)}

BindingLists(node) ==
  CASE node.type \in {"Program", "BlockStatement"} -> BindingListsOf(node.body)
    [] node.type \in {"FunctionDeclaration", "FunctionExpression"} ->
         {node.params} \cup BindingLists(node.body)
    [] node.type = "TryStatement" -> BindingLists(node.block) \cup BindingLists(node.handler)
    [] node.type = "CatchClause" -> {<<node.param>>} \cup BindingLists(node.body)
    [] node.type = "ExpressionStatement" -> BindingLists(node.expression)
    [] node.type = "AssignmentExpression" -> BindingLists(node.right)
    [] OTHER -> {}

\* C21 as claimed: a withLHS call that completes leaves isLHS as it found
\* it, whatever it was (so also inside another withLHS call); isLHS is false
\* at every visit of an identifier in read position and true at every visit
\* of one in binding position; every binding-position identifier is written
\* as its bare name and every read-position identifier as R(id, "name", name).
C21_LHSDiscipline ==
  RanRegion =>
    \A w \in {TheWalk} :
      /\ ~w.isLHS
      /\ \A b \in BOOLEAN, l \in BindingLists(Parse(code)) :
           WithLHSArray([NewState(0, <<>>) EXCEPT !.isLHS = b], l).isLHS = b
      /\ \A i \in 1..Len(w.visits) :
           \E x \in Identifiers(Parse(code), "read") :
             /\ x.node = w.visits[i].node
             /\ x.pos \in {"read", "binding"}
             /\ w.visits[i].isLHS = (x.pos = "binding")
      /\ \A x \in Identifiers(Parse(code), "read") :
           x.pos \in {"read", "binding"} =>
             /\ \E i \in 1..Len(w.visits) : w.visits[i].node = x.node
             /\ \A i \in 1..Len(w.visits) :
                  w.visits[i].node = x.node =>
                    IF x.pos = "binding"
                    THEN w.out[w.visits[i].at] = Txt(x.node.name)
                    ELSE ReadCallAt(w.out, w.visits[i].at, x.node.name)

\* a function with parameters that its body reads has been instrumented
C21_Witness ==
  /\ RanRegion
  /\ \E x, y \in Identifiers(Parse(code), "read") :
       /\ x.pos = "binding" /\ y.pos = "read"
       /\ x.node.name = y.node.name
  /\ \E l \in BindingLists(Parse(code)) : Len(l) > 1

\* the elements of a list
Members(s) == {s[i] : i \in 1..Len(s)}

\* the nodes of the tree under a node, the node included
RECURSIVE Nodes(_)
Nodes(node) ==
  IF node.type = "null" THEN {}
  ELSE {node} \cup UNION {Nodes(k) : k \in Members(Kids(node))}

FunctionTypes == {"FunctionDeclaration", "FunctionExpression"}

\* The regions of a program that the walker enters through state.walk: a
\* function's body block is walked by logFunc statement by statement and is
\* part of the function's region.
Regions(program) ==
  {n \in Nodes(program) :
     /\ n.type \in FunctionTypes \cup {"BlockStatement", "CatchClause", "ForStatement",
                                       "ForInStatement", "ForOfStatement"}
     /\ ~\E f \in Nodes(program) : f.type \in FunctionTypes /\ f.body = n}

\* a state whose current scope is the frame of an enclosing region
Enclosed == CreateScope(NewState(0, <<>>), NewScope(FALSE))

\* C22 as claimed: when the walk of a region returns, the current scope is
\* the frame that was current when the walk of the region began; and the
\* scope current when a statement of a block is entered, which becomes the
\* parent of the frame a region statement creates, is the scope current
\* when the block's first statement was entered.
C22_ScopeStack ==
  RanRegion =>
    /\ \A n \in Regions(Parse(code)) : Walk(Enclosed, n).scope = Enclosed.scope
    /\ \A b \in Nodes(Parse(code)) :
         b.type = "BlockStatement" =>
           \A j \in 1..Len(b.body) :
             WalkStatements(Enclosed, SubSeq(b.body, 1, j - 1), 1).scope = Enclosed.scope

\* the regions of a program for which the walker creates a frame
Framed(program) ==
  {program} \cup
  {n \in Regions(program) :
     n.type = "ForStatement" =>
       n.init.type = "VariableDeclaration" /\ n.init.kind \in {"let", "const"}}

\* the frame the walker creates on entry to a region: the argument its
\* visitor hands to createScope
FrameOf(n) ==
  CASE n.type = "Program" -> ScopeWalkArray(NewScope(FALSE), n.body, 1)
    [] n.type = "FunctionDeclaration" -> ScopeWalkFunction(NewScope(FALSE), n, FALSE)
    [] n.type = "FunctionExpression" -> ScopeWalkFunction(NewScope(FALSE), n, TRUE)
    [] n.type = "BlockStatement" -> ScopeWalkArray(NewScope(TRUE), n.body, 1)
    [] n.type = "CatchClause" -> ScopeWalkCatch(NewScope(FALSE), n)
    [] n.type = "ForStatement" -> ScopeWalk(NewScope(TRUE), n.init)
    [] n.type \in {"ForInStatement", "ForOfStatement"} -> ScopeWalk(NewScope(TRUE), n.left)

\* node d lies inside region n
Inside(n, d) == d # n /\ d \in Nodes(n)

\* the innermost of the regions S that node d lies inside
Innermost(S, d) ==
  CHOOSE n \in S : Inside(n, d) /\ \A m \in S : Inside(m, d) => n \in Nodes(m)

\* the frame maps name x to kind
Has(frame, x, kind) ==
  \E i \in 1..Len(frame.vars) : frame.vars[i] = [name |-> x, kind |-> kind]

\* the names a declaration declares, with the kind each is recorded as
NamesOf(d) ==
  CASE d.type = "FunctionDeclaration" -> {[name |-> d.id.name, kind |-> "Func"]}
    [] d.kind = "var" -> Members(DeclaredNames(d.declarations, "Var", 1))
    [] d.kind = "let" -> Members(DeclaredNames(d.declarations, "Let", 1))
    [] d.kind = "const" -> Members(DeclaredNames(d.declarations, "Const", 1))

IsHoisted(d) ==
  \/ d.type = "FunctionDeclaration" /\ d.id.type # "null"
  \/ d.type = "VariableDeclaration" /\ d.kind = "var"

IsLexical(d) == d.type = "VariableDeclaration" /\ d.kind \in {"let", "const"}

\* every hoisted declaration is recorded in the frame of its function or
\* of the program, and in the frame of no other region around it
HoistedAttachment(p) ==
  \A d \in Nodes(p) :
    IsHoisted(d) =>
      \A x \in NamesOf(d) :
        /\ Has(FrameOf(Innermost({n \in Framed(p) : n.type \in FunctionTypes \cup {"Program"}},
                                 d)), x.name, x.kind)
        /\ \A b \in Framed(p) :
             b.type \notin FunctionTypes \cup {"Program"} /\ Inside(b, d) =>
               ~Has(FrameOf(b), x.name, x.kind)

\* every let/const declaration is recorded in the frame of the innermost
\* region around it, and in the frame of no region further out
LexicalAttachment(p) ==
  \A d \in Nodes(p) :
    IsLexical(d) =>
      \A x \in NamesOf(d) :
        \E own \in {Innermost({p} \cup Regions(p), d)} :
          /\ own \in Framed(p)
          /\ Has(FrameOf(own), x.name, x.kind)
          /\ \A o \in Framed(p) :
               o # own /\ Inside(o, d) => ~Has(FrameOf(o), x.name, x.kind)

\* C23 as claimed: a var or function declaration nested at any depth in a
\* function or program, no function boundary crossed, is recorded in the
\* frame of that function or program and in no block frame; a let/const
\* declaration is recorded in the frame of the region immediately around
\* it and in no frame further out.
C23_Attachment ==
  RanRegion => \A p \in {Parse(code)} : HoistedAttachment(p) /\ LexicalAttachment(p)

\* the frame of function f is seeded as claimed
Seeded(f) ==
  \E frame \in {FrameOf(f)} :
    /\ Has(frame, "arguments", "Arguments")
    /\ \A x \in Members(ParamNames(f.params, 1)) : Has(frame, x.name, "Param")
    /\ f.id.type # "null" =>
         IF f.type = "FunctionExpression"
         THEN Has(frame, f.id.name, "Func")
         ELSE Has(frame, f.id.name, "Func") =>
                \E y \in Members(HoistedNames(f.body)) : y = [name |-> f.id.name, kind |-> "Func"]

\* C24 as claimed: the frame of every function, whose declares are written
\* at function entry, maps `arguments` to Arguments, every parameter name
\* to Param and, for a named function expression only, the function's own
\* name to Func, whatever the body declares.
C24_FrameSeeding ==
  RanRegion =>
    \A f \in Nodes(Parse(code)) : f.type \in FunctionTypes => Seeded(f)

\* C25 as claimed: a call Up(id, binaryId, op, prefix, argument, write)
\* fires unaryPre(id), binaryPre(binaryId), binaryPost(binaryId), the
\* writer once with the new value (the coerced old value plus one for `++`,
\* minus one for `--`) and unaryPost(id), in this order, and returns the
\* new value if prefix and the coerced old value if not.
C25_UpdateHook ==
  last.hook = "Up" =>
    \E prefix \in {last.args[1] = Bool(TRUE)}, argument \in {last.args[2]} :
      \E old \in {[t |-> "number", v |-> argument.v]} :
        \E new \in {[old EXCEPT !.v = IF last.op = "++" THEN @ + 1 ELSE @ - 1]} :
          /\ [i \in 1..Len(last.events) |-> last.events[i].cb]
               = <<"unaryPre", "binaryPre", "binaryPost", "write", "unaryPost">>
          /\ last.events[1].id = last.id /\ last.events[5].id = last.id
          /\ last.events[2].id = last.id + ID_INC_STEP
          /\ last.events[3].id = last.id + ID_INC_STEP
          /\ last.events[2].args = <<old, Num(1)>>
          /\ last.events[3].args = <<old, Num(1), new>>
          /\ last.events[4].args = <<new>>
          /\ last.events[5].args = <<last.args[1], argument, last.ret>>
          /\ ~last.threw
          /\ last.ret = IF prefix THEN new ELSE old

\* a postfix decrement of `true` has been made: it returns 1 and writes 0
C25_Witness ==
  /\ last.hook = "Up" /\ last.op = "--"
  /\ last.args = <<Bool(FALSE), Bool(TRUE)>>
  /\ last.ret = Num(1)

\* the member expressions that are the target of an update expression
UpdateTargets(p) ==
  {u.argument : u \in {n \in Nodes(p) : n.type = "UpdateExpression"
                                          /\ n.argument.type = "MemberExpression"}}

\* the identifiers read when the base and the computed key of member
\* expression m are evaluated
ReadIn(m) ==
  {x.node : x \in {y \in Identifiers(m.object, "read")
                          \cup (IF m.computed THEN Identifiers(m.property, "read") ELSE {}) :
                     y.pos = "read"}}

\* how often the walk visited Identifier node x; every visit in read
\* position writes one R call into the text (C21), the writer closure runs
\* once per Up call (C25), so this is how often the emitted code reads x
TimesRead(w, x) == Cardinality({i \in 1..Len(w.visits) : w.visits[i].node = x})

\* C26 as claimed: the code emitted for an update expression on a member
\* expression evaluates the base and the computed key once each, so every
\* identifier in them is read once.
C26_SingleEvaluation ==
  RanRegion =>
    \A w \in {TheWalk} :
      \A m \in UpdateTargets(Parse(code)) :
        \A x \in ReadIn(m) : TimesRead(w, x) = 1

\* the positions of the O calls in the emitted text; an O call follows the
\* ` in ` or ` of ` of the loop head and its last argument stands before
\* the `)` that closes it and the `) {` that closes the head
ObjectCalls == {i \in 2..Len(output) : output[i] = Hook("O")}

HeadEnd(i) == CHOOSE j \in i..Len(output) :
                /\ output[j] = Txt(") {")
                /\ \A m \in i..(j - 1) : output[m] # Txt(") {")

\* C27 as claimed: the O call of a for-in statement is emitted with
\* isForIn = true and the O call of a for-of statement with isForIn = false.
C27_ForInFlag ==
  RanRegion =>
    \A i \in ObjectCalls :
      /\ output[i - 1] \in {Txt(" in "), Txt(" of ")}
      /\ output[HeadEnd(i) - 1] = Txt(")")
      /\ output[HeadEnd(i) - 2] = Txt(IF output[i - 1] = Txt(" in ") THEN "true" ELSE "false")

\* the head written for a `for` statement, and the semicolons in it (the
\* clauses of the pool hold none of their own)
HeadOf(n) == ForHead(NewState(0, <<>>), n).out

Semicolons(h) == {i \in 1..Len(h) : h[i] \in {Txt(";"), Txt("; ")}}

\* the tokens of h from position a to position b, spaces left out
Clause(h, a, b) == SelectSeq(SubSeq(h, a, b), LAMBDA t : t # Txt(" "))

\* C29 as claimed: the head emitted for a `for` statement holds two
\* semicolons, whichever of init, test and update are there, with the init
\* before the first, the test between them and the update after the second.
C29_ForHeader ==
  RanRegion =>
    \A n \in {m \in Nodes(Parse(code)) : m.type = "ForStatement"} :
      \E h \in {HeadOf(n)} :
        /\ h[1] = Txt("for (") /\ h[Len(h)] = Txt(") ")
        /\ Cardinality(Semicolons(h)) = 2
        /\ \E a, b \in Semicolons(h) :
             /\ a < b
             /\ (Clause(h, 2, a - 1) # <<>>) = (n.init.type # "null")
             /\ (Clause(h, a + 1, b - 1) # <<>>) = (n.test.type # "null")
             /\ (Clause(h, b + 1, Len(h) - 1) # <<>>) = (n.update.type # "null")

\* C30 as claimed: the uncaught-exception slot is set only from an X call
\* to the Fx or Sx call that follows it, and it is empty when an Fx or Sx
\* call has finished, by returning or by throwing, also when the exit
\* callback threw.
C30_SlotHygiene ==
  /\ uncaughtException.set => last.hook = "X"
  /\ last.hook \in {"Fx", "Sx"} => ~uncaughtException.set

\* C28 as claimed: at every Swr call of a switch statement the runtime
\* compares the case value with the discriminant the Swl call of that
\* statement stored, whatever functions ran their own switch statements in
\* between and however they were left; and the depth of the switch stack
\* is the number of instrumented invocations that are active.
C28_SwitchPreserved ==
  /\ (last.hook = "Swr" /\ last.op = "case") =>
       /\ last.events[1].cb = "binaryPre"
       /\ last.events[1].args = <<frames[1].disc[1], last.args[1]>>
       /\ last.ret = Bool(frames[1].disc[1] = last.args[1])
  /\ Len(switchStack) = Cardinality(Active)

\* a case test of a switch statement inside a function has been compared
\* after a callee stored another discriminant and was left
C28_Witness ==
  /\ last.hook = "Swr" /\ last.op = "case"
  /\ frames[1].kind = "func"
  /\ frames[1].nested
  /\ switchStack # <<>>


====
